---- MODULE Spec2Model ----
(***************************************************************************)
(* Configuration and secrets resolution of dlt                             *)
(* (dlt/common/configuration/resolve.py, providers/toml.py).               *)
(*                                                                         *)
(* Python values are records [t, v]: t is the run-time type, v the         *)
(* payload.  Sequences of namespace segments are TLA+ sequences of         *)
(* strings.  A resolver call is one action; its get_value calls, hook      *)
(* calls, field visits and deserialize_value calls are logged in the order *)
(* the code makes them.                                                    *)
(***************************************************************************)
EXTENDS Integers, Sequences, FiniteSets, TLC

VARIABLES
    providers,           \* ConfigProvidersContext.providers: the ordered registry
    namespaces_context,  \* Container()[ConfigNamespacesContext]
    objs,                \* the configuration instances, by identity
    call                 \* the last call made and what it did

vars == <<providers, namespaces_context, objs, call>>

(***************************************************************************)
(* Python values                                                           *)
(***************************************************************************)
None == [t |-> "none", v |-> "None"]
Text(s) == [t |-> "text", v |-> s]
PyInt(n) == [t |-> "bigint", v |-> n]
PyBool(b) == [t |-> "bool", v |-> b]
PyTimestamp(s) == [t |-> "timestamp", v |-> s]
\* a mapping (dict, TOML table): v is its set of items <<key, value>>
Mapping(items) == [t |-> "mapping", v |-> items]
PyList(s) == [t |-> "list", v |-> s]
PyTuple(s) == [t |-> "tuple", v |-> s]
\* the text json.dumps or str() gives for a structured value: doc is what is
\* written in it
Rendered(format, doc) == [t |-> "text", v |-> format, doc |-> doc]
IsRendered(x) == x.t = "text" /\ x.v \in {"<json>", "<literal>"}
\* a BaseConfiguration instance: v is its identity, the key of objs
Instance(id) == [t |-> "config", v |-> id]

\* bool(x) of Python for the values modelled
Truthy(x) ==
    CASE x.t = "none" -> FALSE
      [] x.t = "text" -> x.v # ""
      [] x.t = "bigint" -> x.v # 0
      [] x.t = "bool" -> x.v
      [] x.t = "mapping" -> x.v # {}
      [] x.t \in {"list", "tuple"} -> x.v # <<>>
      [] OTHER -> TRUE

\* mapping.get(key)
Get(mapping, key) ==
    IF \E item \in mapping.v : item[1] = key
    THEN (CHOOSE item \in mapping.v : item[1] = key)[2]
    ELSE None

\* x or y of Python
PyOr(x, y) == IF Truthy(x) THEN x ELSE y

(***************************************************************************)
(* Exceptions.  NoExc stands for "nothing was raised".                     *)
(***************************************************************************)
Exc(kind, who, info, fields) ==
    [kind |-> kind, who |-> who, info |-> info, fields |-> fields]
NoExc == Exc("none", "", <<>>, <<>>)

(***************************************************************************)
(* Type hints: base is the hint without Optional[...], opt says whether    *)
(* it was wrapped in Optional.                                             *)
(***************************************************************************)
H(base) == [base |-> base, opt |-> FALSE]
Opt(base) == [base |-> base, opt |-> TRUE]
AnyType == H("AnyType")
TSecretValue == H("TSecretValue")

\* '_' is the first character of the name (str.startswith("_"))
InvisibleNames == {"_i", "_j"}
StartsWithUnderscore(s) == s \in InvisibleNames

(***************************************************************************)
(* _apply_embedded_namespaces_to_config_namespace                          *)
(***************************************************************************)
ApplyEmbeddedNoFilter(config_namespace, embedded_namespaces) ==
    LET n == Len(embedded_namespaces)
        cn == IF n > 0 /\ ~StartsWithUnderscore(embedded_namespaces[n])
              THEN embedded_namespaces[n] ELSE config_namespace
    IN  <<cn, IF n > 0 THEN SubSeq(embedded_namespaces, 1, n - 1) ELSE <<>> >>

\* the innermost embedded namespace taken as config namespace whatever its
\* first character
ApplyEmbeddedLastAlways(config_namespace, embedded_namespaces) ==
    LET n == Len(embedded_namespaces)
        cn == IF n > 0 THEN embedded_namespaces[n] ELSE config_namespace
        rest == IF n > 0 THEN SubSeq(embedded_namespaces, 1, n - 1)
                ELSE embedded_namespaces
    IN  <<cn, SelectSeq(rest, LAMBDA s : ~StartsWithUnderscore(s))>>

_apply_embedded_namespaces_to_config_namespace(config_namespace, embedded_namespaces) ==
    LET n == Len(embedded_namespaces)
        cn == IF n > 0 /\ ~StartsWithUnderscore(embedded_namespaces[n])
              THEN embedded_namespaces[n] ELSE config_namespace
        rest == IF n > 0 THEN SubSeq(embedded_namespaces, 1, n - 1)
                ELSE embedded_namespaces
    IN  <<cn, SelectSeq(rest, LAMBDA s : ~StartsWithUnderscore(s))>>

(***************************************************************************)
(* Configuration types: the table get_resolvable_fields() and the class    *)
(* attributes give for each BaseConfiguration subclass.  A namespace of    *)
(* "" stands for __namespace__ = None (the code only tests its truth).     *)
(***************************************************************************)
Field(name, hint, default) == [name |-> name, hint |-> hint, default |-> default]

\* a class of the derivation chain and the hooks its own __dict__ defines
Class(name, hooks) == [name |-> name, hooks |-> hooks]

Types ==
    [Sub      |-> [namespace |-> "source", credentials |-> FALSE,
                   fields |-> <<Field("host", H("str"), None)>>,
                   mro |-> <<Class("Sub", {"on_resolved", "on_partial"}),
                             Class("BaseConfiguration", {})>>],
     Creds    |-> [namespace |-> "creds", credentials |-> TRUE,
                   fields |-> <<Field("password", TSecretValue, None)>>,
                   mro |-> <<Class("Creds", {"on_resolved", "on_partial"}),
                             Class("CredentialsConfiguration", {"on_resolved"}),
                             Class("BaseConfiguration", {})>>],
     Root     |-> [namespace |-> "", credentials |-> FALSE,
                   fields |-> <<Field("name", H("str"), None),
                                Field("db", H("Sub"), None),
                                Field("limit", H("int"), None)>>,
                   mro |-> <<Class("Root", {"on_resolved", "on_partial"}),
                             Class("BaseConfiguration", {})>>],
     RootOpt  |-> [namespace |-> "", credentials |-> FALSE,
                   fields |-> <<Field("name", H("str"), None),
                                Field("db", Opt("Sub"), None),
                                Field("limit", H("int"), PyInt(1))>>,
                   mro |-> <<Class("RootOpt", {"on_resolved", "on_partial"}),
                             Class("BaseConfiguration", {})>>],
     Pipeline |-> [namespace |-> "", credentials |-> FALSE,
                   fields |-> <<Field("credentials", H("Creds"), None)>>,
                   mro |-> <<Class("Pipeline", {"on_resolved", "on_partial"}),
                             Class("BaseConfiguration", {})>>],
     Holder   |-> [namespace |-> "", credentials |-> FALSE,
                   fields |-> <<Field("ctx", H("Ctx"), None),
                                Field("name", H("str"), None)>>,
                   mro |-> <<Class("Holder", {"on_resolved", "on_partial"}),
                             Class("BaseConfiguration", {})>>],
     Outer    |-> [namespace |-> "", credentials |-> FALSE,
                   fields |-> <<Field("_i", H("Mid"), None)>>,
                   mro |-> <<Class("Outer", {"on_resolved", "on_partial"}),
                             Class("BaseConfiguration", {})>>],
     Mid      |-> [namespace |-> "", credentials |-> FALSE,
                   fields |-> <<Field("db", H("Sub"), None),
                                Field("_j", H("Sub"), None)>>,
                   mro |-> <<Class("Mid", {"on_resolved", "on_partial"}),
                             Class("BaseConfiguration", {})>>],
     Ctx      |-> [namespace |-> "", credentials |-> FALSE,
                   fields |-> <<>>,
                   mro |-> <<Class("Ctx", {}),
                             Class("ContainerInjectableContext", {}),
                             Class("BaseConfiguration", {})>>]]

ConfigTypeNames == DOMAIN Types
CredentialsTypes == {T \in ConfigTypeNames : Types[T].credentials}
ContextTypes == {"Ctx"}

\* hint is TSecretValue or (inspect.isclass(hint) and issubclass(hint, CredentialsConfiguration))
IsSecretHintNever(hint) == FALSE

_is_secret_hint(hint) ==
    hint = TSecretValue \/ (~hint.opt /\ hint.base \in CredentialsTypes)

(***************************************************************************)
(* Providers.  A provider is [name, supports_namespaces, supports_secrets, *)
(* toml]; toml is the parsed document as the set of its leaves             *)
(* [path, val], no leaf's path a prefix of another's.                      *)
(***************************************************************************)
IsPrefix(s, t) == Len(s) <= Len(t) /\ SubSeq(t, 1, Len(s)) = s
IsStrictPrefix(s, t) == Len(s) < Len(t) /\ SubSeq(t, 1, Len(s)) = s

PrefixFree(toml) ==
    \A e1, e2 \in toml : IsPrefix(e1.path, e2.path) => e1 = e2

\* the node the walk "for k in full_path: node = node[k]" ends at, None
\* standing for the KeyError
RECURSIVE TomlNode(_, _)
TomlNode(toml, full_path) ==
    IF \E e \in toml : e.path = full_path
    THEN (CHOOSE e \in toml : e.path = full_path).val
    ELSE LET below == {e \in toml : IsStrictPrefix(full_path, e.path)}
         IN  IF below = {} THEN None
             ELSE Mapping({<<k, TomlNode(toml, Append(full_path, k))>> :
                              k \in {e.path[Len(full_path) + 1] : e \in below}})

\* TomlProvider.get_key_name: the segments joined by "."
get_key_name(key, namespaces) ==
    IF namespaces # <<>>
    THEN Append(SelectSeq(namespaces, LAMBDA x : x # ""), key)
    ELSE <<key>>

\* TomlProvider.get_value: (value, full key name)
get_value(provider, key, hint, namespaces) ==
    [value |-> TomlNode(provider.toml, Append(namespaces, key)),
     ns_key |-> get_key_name(key, namespaces)]

(***************************************************************************)
(* _resolve_single_value.  The result is [value, traces, queries, exc]:    *)
(* queries are the provider.get_value calls in the order made, traces the  *)
(* LookupTrace list as it reads when the function returns.                 *)
(***************************************************************************)
LookupTrace(provider, namespaces, key, value) ==
    [provider |-> provider, namespaces |-> namespaces, key |-> key, value |-> value]

\* a LookupTrace built when full_ns is the list ns itself keeps that list:
\* it reads as the list stands when the provider's loop is left
SinceAliased(traces, first, ns) ==
    [i \in DOMAIN traces |->
        IF i >= first THEN [traces[i] EXCEPT !.namespaces = ns] ELSE traces[i]]

PopFirst(ns) == SubSeq(ns, 2, Len(ns))
PopAll(ns) == <<>>

\* ns.pop()
Pop(ns) == SubSeq(ns, 1, Len(ns) - 1)

\* a start that keeps the context's namespaces under explicit ones
StartNamespacesWithAmbient(a) ==
    namespaces_context.namespaces \o a.explicit_namespaces \o a.embedded_namespaces

\* the namespaces the fallback starts from, for a provider with namespaces
StartNamespaces(a) ==
    (IF a.explicit_namespaces # <<>> THEN a.explicit_namespaces
     ELSE namespaces_context.namespaces) \o a.embedded_namespaces

\* full_ns: ns between the pipeline name and the config namespace
Wrapped(provider, a) ==
    (a.pipeline_name # "" \/ a.config_namespace # "") /\ provider.supports_namespaces
FullNs(provider, a, ns) ==
    IF Wrapped(provider, a)
    THEN (IF a.pipeline_name # "" THEN <<a.pipeline_name>> ELSE <<>>)
         \o ns \o
         (IF a.config_namespace # "" THEN <<a.config_namespace>> ELSE <<>>)
    ELSE ns

RECURSIVE NamespaceLoop(_, _, _, _, _)

\* the body of "while True" once provider.get_value returned got
Attempted(provider, a, ns, first, acc, full_ns, got) ==
    LET cant_hold_it == ~provider.supports_secrets /\ _is_secret_hint(a.hint)
        queries == Append(acc.queries,
                          [provider |-> provider.name, key |-> a.key,
                           hint |-> a.hint, namespaces |-> full_ns])
        traces == IF cant_hold_it THEN acc.traces
                  ELSE Append(acc.traces,
                              LookupTrace(provider.name, full_ns, got.ns_key, got.value))
        left(tr, nsNow) == IF Wrapped(provider, a) THEN tr
                           ELSE SinceAliased(tr, first, nsNow)
    IN  IF got.value # None /\ cant_hold_it
        THEN [acc EXCEPT !.queries = queries,
                         !.exc = Exc("ValueNotSecretException", provider.name,
                                     got.ns_key, <<>>)]
        ELSE IF got.value # None
        THEN [acc EXCEPT !.queries = queries, !.traces = left(traces, ns),
                         !.value = got.value]
        ELSE IF Len(ns) = 0
        THEN [acc EXCEPT !.queries = queries, !.traces = left(traces, ns)]
        ELSE NamespaceLoop(provider, a, Pop(ns), first,
                           [acc EXCEPT !.queries = queries, !.traces = traces])

\* the "while True" loop for one provider; first is where this provider's
\* traces start
NamespaceLoop(provider, a, ns, first, acc) ==
    Attempted(provider, a, ns, first, acc, FullNs(provider, a, ns),
              get_value(provider, a.key, a.hint, FullNs(provider, a, ns)))

RECURSIVE look_namespaces(_, _, _)

\* "if value is not None: break" after provider i returned r
AfterProvider(a, i, r) ==
    IF r.exc # NoExc \/ r.value # None THEN r
    ELSE look_namespaces(a, i + 1, r)

\* the loop that asks every provider in every pass
LookNamespacesNoSkip(a, i, acc) ==
    IF i > Len(providers) THEN acc
    ELSE AfterProvider(a, i,
             NamespaceLoop(providers[i], a,
                           IF providers[i].supports_namespaces
                           THEN StartNamespaces(a) ELSE <<>>,
                           Len(acc.traces) + 1, acc))

\* "for provider in providers" of look_namespaces, from provider i on
look_namespaces(a, i, acc) ==
    IF i > Len(providers) THEN acc
    ELSE IF ~providers[i].supports_namespaces /\ a.pipeline_name # ""
    THEN look_namespaces(a, i + 1, acc)
    ELSE AfterProvider(a, i,
             NamespaceLoop(providers[i], a,
                           IF providers[i].supports_namespaces
                           THEN StartNamespaces(a) ELSE <<>>,
                           Len(acc.traces) + 1, acc))

IsContextHint(inner_hint) == ~inner_hint.opt /\ inner_hint.base \in ContextTypes
\* a BaseConfiguration subclass; ContainerInjectableContext is one too
IsConfigHint(inner_hint) ==
    ~inner_hint.opt /\ inner_hint.base \in ConfigTypeNames \cup ContextTypes

\* ConfigProvidersContext.context_provider.get_value(key, inner_hint): the
\* context of that type the container holds
ContextId == <<"$container">>
ContextProviderValue(os) ==
    IF ContextId \in DOMAIN os THEN Instance(ContextId) ELSE None

\* lines 353-355: the pass without the pipeline name, made when the pass
\* with it found nothing
SecondPass(a, first) ==
    IF first.exc # NoExc \/ first.value # None THEN first
    ELSE look_namespaces(a, 1, first)

NoValue == [value |-> None, traces |-> <<>>, queries |-> <<>>, exc |-> NoExc]

\* the two passes the other way round
PassesPlainFirst(a) ==
    IF namespaces_context.pipeline_name # ""
    THEN SecondPass([a EXCEPT !.pipeline_name = namespaces_context.pipeline_name],
                    look_namespaces(a, 1, NoValue))
    ELSE SecondPass(a, NoValue)

\* lines 350-355 with the arguments a of the lookup
Passes(a) ==
    SecondPass(a, IF namespaces_context.pipeline_name # ""
                  THEN look_namespaces(
                           [a EXCEPT !.pipeline_name = namespaces_context.pipeline_name],
                           1, NoValue)
                  ELSE NoValue)

LookupArgs(key, hint, explicit_namespaces, ap) ==
    [key |-> key, hint |-> hint, config_namespace |-> ap[1],
     explicit_namespaces |-> explicit_namespaces,
     embedded_namespaces |-> ap[2], pipeline_name |-> ""]

\* a lookup that sends a context to the registry like any other field
ResolveSingleValueNoContext(os, key, hint, inner_hint, config_namespace, explicit_namespaces, embedded_namespaces) ==
    Passes(LookupArgs(key, hint, explicit_namespaces,
                      _apply_embedded_namespaces_to_config_namespace(
                          config_namespace, embedded_namespaces)))

_resolve_single_value(os, key, hint, inner_hint, config_namespace, explicit_namespaces, embedded_namespaces) ==
    IF IsContextHint(inner_hint)
    THEN [NoValue EXCEPT !.value = ContextProviderValue(os),
                         !.queries = <<[provider |-> "Injectable Context",
                                        key |-> key, hint |-> inner_hint,
                                        namespaces |-> <<>>]>>]
    ELSE IF IsConfigHint(inner_hint) THEN NoValue
    ELSE Passes(LookupArgs(key, hint, explicit_namespaces,
                           _apply_embedded_namespaces_to_config_namespace(
                               config_namespace, embedded_namespaces)))

(***************************************************************************)
(* The registry and what the providers hold                                *)
(***************************************************************************)
ConfigTomlProvider ==
    [name |-> "Pipeline config.toml", supports_namespaces |-> TRUE,
     supports_secrets |-> FALSE, toml |-> {}]
SecretsTomlProvider ==
    [name |-> "Pipeline secrets.toml", supports_namespaces |-> TRUE,
     supports_secrets |-> TRUE, toml |-> {}]
\* providers without namespaces: one that may hold secrets, one that may not
VaultProvider ==
    [name |-> "Vault", supports_namespaces |-> FALSE,
     supports_secrets |-> TRUE, toml |-> {}]
PlainProvider ==
    [name |-> "Plain", supports_namespaces |-> FALSE,
     supports_secrets |-> FALSE, toml |-> {}]

Registries ==
    {<<SecretsTomlProvider, ConfigTomlProvider>>,
     <<ConfigTomlProvider, SecretsTomlProvider>>,
     <<PlainProvider, SecretsTomlProvider>>,
     <<ConfigTomlProvider, VaultProvider>>}

\* how many values the providers hold together
MaxEntries == 2

RECURSIVE SubsetsUpTo(_, _)
SubsetsUpTo(S, n) ==
    IF n = 0 THEN {{}}
    ELSE LET less == SubsetsUpTo(S, n - 1)
         IN  less \cup {s \cup {e} : s \in less, e \in S}

\* the registry reg with the entries [provider, path, val] loaded
Loaded(reg, entries) ==
    [i \in DOMAIN reg |->
        [reg[i] EXCEPT !.toml = {[path |-> e.path, val |-> e.val] :
                                    e \in {x \in entries : x.provider = i}}]]

NoCall == [op |-> "none"]

(***************************************************************************)
(* Lookups of one key: _resolve_single_value called on its own             *)
(***************************************************************************)
LookupNamespacePaths ==
    {pre \o mid \o post : pre \in {<<>>, <<"p">>},
                          mid \in {<<>>, <<"a">>, <<"a", "b">>},
                          post \in {<<>>, <<"c">>}}

LookupEntries ==
    {[provider |-> i, path |-> Append(ns, "k"),
      val |-> Text(IF i = 1 THEN "v1" ELSE "v2")] :
        i \in 1..2, ns \in LookupNamespacePaths}

LookupInit ==
    /\ \E reg \in Registries, entries \in SubsetsUpTo(LookupEntries, MaxEntries) :
          providers = Loaded(reg, entries)
    /\ namespaces_context \in
          [pipeline_name : {"", "p"}, namespaces : {<<"a", "b">>}]
    /\ objs = <<>>
    /\ call = NoCall

ResolveSingleValue ==
    /\ call = NoCall
    /\ \E hint \in {H("str"), TSecretValue},
       config_namespace \in {"", "c"},
       explicit_namespaces \in {<<>>, <<"a">>},
       embedded_namespaces \in {<<>>, <<"e", "f">>} :
        LET r == _resolve_single_value(objs, "k", hint, H("str"), config_namespace,
                                       explicit_namespaces, embedded_namespaces)
        IN  /\ call' = [op |-> "_resolve_single_value",
                        hint |-> hint, config_namespace |-> config_namespace,
                        explicit_namespaces |-> explicit_namespaces,
                        embedded_namespaces |-> embedded_namespaces,
                        value |-> r.value, traces |-> r.traces,
                        queries |-> r.queries, exc |-> r.exc]
            /\ UNCHANGED <<providers, namespaces_context, objs>>

LookupNext == ResolveSingleValue

SpecLookup == LookupInit /\ [][LookupNext]_vars

ProviderNamed(name) == providers[CHOOSE i \in DOMAIN providers : providers[i].name = name]
\* what the provider of a query holds at the queried place
Held(q) == get_value(ProviderNamed(q.provider), q.key, q.hint, q.namespaces).value
\* the queries as <<provider, namespaces>>
Attempts(queries) == [j \in DOMAIN queries |-> <<queries[j].provider, queries[j].namespaces>>]

\* C1: the hint is TSecretValue: an attempt on a provider that cannot hold
\* secrets which finds a value is the last attempt of the lookup and raises
\* ValueNotSecretException naming that provider and key; the lookup returns
\* no value then, and a value it does return is held by a provider that can
\* hold secrets.
C1_SecretBoundary ==
    (call.op = "_resolve_single_value" /\ call.hint = TSecretValue) =>
        /\ \A j \in DOMAIN call.queries :
              (~ProviderNamed(call.queries[j].provider).supports_secrets
               /\ Held(call.queries[j]) # None) =>
                  /\ j = Len(call.queries)
                  /\ call.exc = Exc("ValueNotSecretException", call.queries[j].provider,
                                    get_key_name("k", call.queries[j].namespaces), <<>>)
                  /\ call.value = None
        /\ call.value # None =>
              /\ call.exc = NoExc
              /\ ProviderNamed(call.queries[Len(call.queries)].provider).supports_secrets

\* the value sits one fallback step down in a provider that cannot hold it
C1_Witness ==
    /\ call.op = "_resolve_single_value"
    /\ call.hint = TSecretValue
    /\ call.exc.kind = "ValueNotSecretException"
    /\ Len(call.queries) > 1
    /\ \A i \in DOMAIN providers :
          providers[i].toml # {} => ~providers[i].supports_secrets

\* the order of attempts of two namespaced providers under [a, b]
FallbackOrder ==
    <<<<providers[1].name, <<"a", "b">>>>, <<providers[1].name, <<"a">>>>,
      <<providers[1].name, <<>>>>,
      <<providers[2].name, <<"a", "b">>>>, <<providers[2].name, <<"a">>>>,
      <<providers[2].name, <<>>>>>>

FallbackCase ==
    /\ call.op = "_resolve_single_value"
    /\ call.hint = H("str")
    /\ call.config_namespace = ""
    /\ call.explicit_namespaces = <<>>
    /\ call.embedded_namespaces = <<>>
    /\ namespaces_context = [pipeline_name |-> "", namespaces |-> <<"a", "b">>]
    /\ \A i \in DOMAIN providers : providers[i].supports_namespaces

\* C3: without a pipeline name, under ambient namespaces [a, b], two
\* namespaced providers are tried as P1@[a,b], P1@[a], P1@[], P2@[a,b],
\* P2@[a], P2@[]; the attempts stop at the first one that finds a value,
\* which is the value returned, and run to the end when none does.
C3_FallbackOrder ==
    FallbackCase =>
        LET n == Len(call.queries)
            found == {j \in 1..6 :
                        TomlNode(ProviderNamed(FallbackOrder[j][1]).toml,
                                 Append(FallbackOrder[j][2], "k")) # None}
        IN  /\ n <= 6
            /\ Attempts(call.queries) = SubSeq(FallbackOrder, 1, n)
            /\ call.exc = NoExc
            /\ IF found = {}
               THEN n = 6 /\ call.value = None
               ELSE /\ \A j \in found : n <= j
                    /\ n \in found
                    /\ call.value = Held(call.queries[n])

\* P1 holds the value under [a, b], P2 under []: P1's is returned
C3_Witness ==
    /\ FallbackCase
    /\ \E e \in providers[1].toml : e.path = <<"a", "b", "k">>
    /\ \E e \in providers[2].toml : e.path = <<"k">>
    /\ call.value = Text("v1")
    /\ Len(call.queries) = 1

(***************************************************************************)
(* Namespace composition: the embedded chain applied to the configuration  *)
(* namespace, and the lookup of a field under them                         *)
(***************************************************************************)
\* how long an embedded chain is
MaxChain == 3

RECURSIVE SeqsUpTo(_, _)
SeqsUpTo(S, n) ==
    IF n = 0 THEN {<<>>}
    ELSE LET less == SeqsUpTo(S, n - 1)
         IN  less \cup {Append(s, x) : s \in less, x \in S}

NsInit ==
    /\ providers = <<SecretsTomlProvider, ConfigTomlProvider>>
    /\ namespaces_context = [pipeline_name |-> "", namespaces |-> <<>>]
    /\ objs = <<>>
    /\ call = NoCall

ApplyEmbedded ==
    /\ call = NoCall
    /\ \E config_namespace \in {"", "source"},
          embedded_namespaces \in SeqsUpTo({"db", "e", "_i", "_j"}, MaxChain) :
          LET ap == _apply_embedded_namespaces_to_config_namespace(
                        config_namespace, embedded_namespaces)
              r == _resolve_single_value(objs, "k", H("str"), H("str"), config_namespace,
                                         <<>>, embedded_namespaces)
          IN  call' = [op |-> "_apply_embedded_namespaces_to_config_namespace",
                       config_namespace |-> config_namespace,
                       embedded_namespaces |-> embedded_namespaces,
                       result |-> ap, queries |-> r.queries]
    /\ UNCHANGED <<providers, namespaces_context, objs>>

NsNext == ApplyEmbedded

SpecNs == NsInit /\ [][NsNext]_vars

\* the elements of s that do not start with '_', in their order
RECURSIVE Visible(_)
Visible(s) ==
    IF s = <<>> THEN <<>>
    ELSE IF StartsWithUnderscore(Head(s)) THEN Visible(Tail(s))
    ELSE <<Head(s)>> \o Visible(Tail(s))

\* C9: for a configuration namespace c and an embedded chain e the function
\* returns (c', e'): c' = c when e is empty or its last element starts with
\* '_', and the last element of e otherwise; e' is e without its last
\* element and without the elements starting with '_'.  A field is then
\* looked up under e' followed by c': 'source' nested under 'db' is looked
\* up under 'db'.
C9_EmbeddedReplacement ==
    call.op = "_apply_embedded_namespaces_to_config_namespace" =>
        LET c == call.config_namespace
            e == call.embedded_namespaces
            n == Len(e)
            c2 == call.result[1]
            e2 == call.result[2]
        IN  /\ n = 0 => c2 = c /\ e2 = <<>>
            /\ (n > 0 /\ StartsWithUnderscore(e[n])) => c2 = c
            /\ (n > 0 /\ ~StartsWithUnderscore(e[n])) => c2 = e[n]
            /\ n > 0 => e2 = Visible(SubSeq(e, 1, n - 1))
            /\ call.queries # <<>>
            /\ call.queries[1].namespaces = e2 \o (IF c2 = "" THEN <<>> ELSE <<c2>>)
            /\ (c = "source" /\ e = <<"db">>) => call.queries[1].namespaces = <<"db">>

C9_Witness ==
    /\ call.op = "_apply_embedded_namespaces_to_config_namespace"
    /\ call.config_namespace = "source"
    /\ call.embedded_namespaces = <<"db">>
    /\ call.result = <<"db", <<>>>>

(***************************************************************************)
(* Type coercion: deserialize_value and serialize_value                    *)
(***************************************************************************)
\* type(value) as a hint
TypeOf(x) ==
    CASE x.t = "text" -> "str"
      [] x.t = "bigint" -> "int"
      [] x.t = "bool" -> "bool"
      [] x.t = "timestamp" -> "datetime"
      [] x.t = "mapping" -> "dict"
      [] x.t = "list" -> "list"
      [] x.t = "tuple" -> "tuple"
      [] OTHER -> "object"

\* the coercion class of a type; "" when the type has none (an exception)
py_type_to_sc_type(type) ==
    CASE type = "str" -> "text"
      [] type = "int" -> "bigint"
      [] type = "bool" -> "bool"
      [] type = "datetime" -> "timestamp"
      [] type \in {"dict", "list", "tuple"} -> "complex"
      [] OTHER -> ""

\* str(n) and int(s) on the integers modelled
IntTexts == {<<0, "0">>, <<1, "1">>, <<7, "7">>}
TimestampTexts == {"2020-01-01"}

\* json.dumps: what the JSON text says
RECURSIVE ToJson(_)
ToJson(x) ==
    CASE x.t \in {"list", "tuple"} ->
            [t |-> "jarray", v |-> [i \in DOMAIN x.v |-> ToJson(x.v[i])]]
      [] x.t = "mapping" ->
            [t |-> "jobject", v |-> {<<item[1], ToJson(item[2])>> : item \in x.v}]
      [] x.t = "bigint" -> [t |-> "jnumber", v |-> x.v]
      [] x.t = "bool" -> [t |-> "jbool", v |-> x.v]
      [] x.t = "text" -> [t |-> "jstring", v |-> x.v]

\* json.loads of that text
RECURSIVE FromJson(_)
FromJson(d) ==
    CASE d.t = "jarray" -> PyList([i \in DOMAIN d.v |-> FromJson(d.v[i])])
      [] d.t = "jobject" -> Mapping({<<item[1], FromJson(item[2])>> : item \in d.v})
      [] d.t = "jnumber" -> PyInt(d.v)
      [] d.t = "jbool" -> PyBool(d.v)
      [] d.t = "jstring" -> Text(d.v)

\* str(value) of a tuple: the repr of each member; a datetime's repr is a
\* call, which is no literal
RECURSIVE ToLiteral(_)
ToLiteral(x) ==
    CASE x.t \in {"list", "tuple"} ->
            [t |-> (IF x.t = "list" THEN "llist" ELSE "ltuple"),
             v |-> [i \in DOMAIN x.v |-> ToLiteral(x.v[i])]]
      [] x.t = "mapping" ->
            [t |-> "ldict", v |-> {<<item[1], ToLiteral(item[2])>> : item \in x.v}]
      [] x.t = "bigint" -> [t |-> "lnumber", v |-> x.v]
      [] x.t = "bool" -> [t |-> "lname", v |-> x.v]
      [] x.t = "text" -> [t |-> "lstring", v |-> x.v]
      [] x.t = "timestamp" -> [t |-> "lcall", v |-> x.v]

RECURSIVE IsLiteral(_)
IsLiteral(d) ==
    CASE d.t \in {"llist", "ltuple"} -> \A i \in DOMAIN d.v : IsLiteral(d.v[i])
      [] d.t = "ldict" -> \A item \in d.v : IsLiteral(item[2])
      [] d.t = "lcall" -> FALSE
      [] OTHER -> TRUE

\* ast.literal_eval of a text that is a literal
RECURSIVE FromLiteral(_)
FromLiteral(d) ==
    CASE d.t = "llist" -> PyList([i \in DOMAIN d.v |-> FromLiteral(d.v[i])])
      [] d.t = "ltuple" -> PyTuple([i \in DOMAIN d.v |-> FromLiteral(d.v[i])])
      [] d.t = "ldict" -> Mapping({<<item[1], FromLiteral(item[2])>> : item \in d.v})
      [] d.t = "lnumber" -> PyInt(d.v)
      [] d.t = "lname" -> PyBool(d.v)
      [] d.t = "lstring" -> Text(d.v)

\* a conversion's result: the value, or ok = FALSE for an exception
Converted(x) == [ok |-> TRUE, value |-> x]
Failed == [ok |-> FALSE, value |-> None]

\* ast.literal_eval(value)
literal_eval(value) ==
    IF value.t = "text" /\ value.v = "<literal>" /\ IsLiteral(value.doc)
    THEN Converted(FromLiteral(value.doc))
    ELSE Failed

\* json.loads(value)
json_loads(value) ==
    IF value.t = "text" /\ value.v = "<json>" THEN Converted(FromJson(value.doc))
    ELSE Failed

\* coerce_type(to_type, from_type, value) of the schema utilities
coerce_type(to_type, from_type, value) ==
    CASE to_type = from_type -> Converted(value)
      [] to_type = "text" /\ from_type = "complex" ->
            Converted(Rendered("<json>", ToJson(value)))
      [] to_type = "text" /\ from_type = "bigint" ->
            Converted(Text((CHOOSE p \in IntTexts : p[1] = value.v)[2]))
      [] to_type = "text" /\ from_type = "bool" ->
            Converted(Text(IF value.v THEN "True" ELSE "False"))
      [] to_type = "text" /\ from_type = "timestamp" -> Converted(Text(value.v))
      [] to_type = "bigint" /\ from_type = "text" ->
            IF \E p \in IntTexts : p[2] = value.v
            THEN Converted(PyInt((CHOOSE p \in IntTexts : p[2] = value.v)[1]))
            ELSE Failed
      [] to_type = "bool" /\ from_type = "text" ->
            IF value.v \in {"True", "true"} THEN Converted(PyBool(TRUE))
            ELSE IF value.v \in {"False", "false"} THEN Converted(PyBool(FALSE))
            ELSE Failed
      [] to_type = "bool" /\ from_type = "bigint" ->
            IF value.v \in {0, 1} THEN Converted(PyBool(value.v = 1)) ELSE Failed
      [] to_type = "timestamp" /\ from_type = "text" ->
            IF value.v \in TimestampTexts THEN Converted(PyTimestamp(value.v))
            ELSE Failed
      [] OTHER -> Failed

ConfigValueCannotBeCoercedException(key, hint) ==
    Exc("ConfigValueCannotBeCoercedException", key, <<hint>>, <<>>)

\* the structured branch of deserialize_value with json for every hint
ParseComplexJsonOnly(value, hint) ==
    LET parsed == json_loads(value)
    IN  IF parsed.ok /\ TypeOf(parsed.value) = hint THEN parsed ELSE Failed

\* "if value_dt == text and hint_dt == complex" of deserialize_value
ParseComplex(value, hint) ==
    LET parsed == IF hint = "tuple" THEN literal_eval(value) ELSE json_loads(value)
    IN  IF parsed.ok /\ TypeOf(parsed.value) = hint THEN parsed ELSE Failed

\* deserialize_value(key, value, hint): [value, exc]
deserialize_value(key, value, hint) ==
    LET hint_dt == py_type_to_sc_type(hint)
        value_dt == py_type_to_sc_type(TypeOf(value))
        r == IF hint = "AnyType" THEN Converted(value)
             ELSE IF hint_dt = "" \/ value_dt = "" THEN Failed
             ELSE IF value_dt = "text" /\ hint_dt = "complex"
             THEN ParseComplex(value, hint)
             ELSE IF value_dt # hint_dt THEN coerce_type(hint_dt, value_dt, value)
             ELSE Converted(value)
    IN  IF r.ok THEN [value |-> r.value, exc |-> NoExc]
        ELSE [value |-> None, exc |-> ConfigValueCannotBeCoercedException(key, hint)]

\* serialize_value(value): [value, exc]
serialize_value(value) ==
    IF value = None THEN [value |-> None, exc |-> Exc("ValueError", "", <<>>, <<>>)]
    ELSE IF value.t = "tuple"
    THEN [value |-> Rendered("<literal>", ToLiteral(value)), exc |-> NoExc]
    ELSE LET r == coerce_type("text", py_type_to_sc_type(TypeOf(value)), value)
         IN  [value |-> r.value, exc |-> NoExc]

\* how many members a structured value has
MaxLen == 2

Scalars ==
    {Text(""), Text("a"), Text("7"), PyInt(0), PyInt(7), PyBool(TRUE), PyBool(FALSE),
     PyTimestamp("2020-01-01")}
\* what a list or a mapping holds: JSON has no tuple
JsonMembers ==
    {PyInt(7), Text("a"), PyBool(TRUE), PyTuple(<<PyInt(7)>>), PyList(<<PyInt(7)>>)}
\* what a tuple holds: a datetime is written as a call
TupleMembers == JsonMembers \cup {PyTimestamp("2020-01-01")}

RECURSIVE MappingsUpTo(_, _, _)
MappingsUpTo(keys, members, n) ==
    IF n = 0 THEN {{}}
    ELSE LET less == MappingsUpTo(keys, members, n - 1)
         IN  less \cup {items \cup {<<k, x>>} :
                          items \in less,
                          k \in keys, x \in members}

IsFunctional(items) == \A i1, i2 \in items : i1[1] = i2[1] => i1 = i2

RoundTripValues ==
    Scalars
    \cup {PyTuple(s) : s \in SeqsUpTo(TupleMembers, MaxLen)}
    \cup {PyList(s) : s \in SeqsUpTo(JsonMembers, MaxLen)}
    \cup {Mapping(items) :
            items \in {m \in MappingsUpTo({"x", "y", "z"}, JsonMembers, MaxLen) :
                         IsFunctional(m)}}

CoerceInit ==
    /\ providers = <<>>
    /\ namespaces_context = [pipeline_name |-> "", namespaces |-> <<>>]
    /\ objs = <<>>
    /\ call = NoCall

RoundTrip ==
    /\ call = NoCall
    /\ \E v \in RoundTripValues :
          LET text == serialize_value(v)
              back == deserialize_value("k", text.value, TypeOf(v))
          IN  call' = [op |-> "round_trip", v |-> v, text |-> text.value,
                       back |-> back.value,
                       exc |-> IF text.exc # NoExc THEN text.exc ELSE back.exc]
    /\ UNCHANGED <<providers, namespaces_context, objs>>

CoerceNext == RoundTrip

SpecCoerce == CoerceInit /\ [][CoerceNext]_vars

\* values JSON keeps as they are: no tuple at any depth
RECURSIVE JsonNative(_)
JsonNative(x) ==
    CASE x.t = "list" -> \A i \in DOMAIN x.v : JsonNative(x.v[i])
      [] x.t = "mapping" -> \A item \in x.v : JsonNative(item[2])
      [] x.t \in {"tuple", "timestamp"} -> FALSE
      [] OTHER -> TRUE

\* values whose repr is a Python literal
RECURSIVE LiteralValue(_)
LiteralValue(x) ==
    CASE x.t \in {"list", "tuple"} -> \A i \in DOMAIN x.v : LiteralValue(x.v[i])
      [] x.t = "mapping" -> \A item \in x.v : LiteralValue(item[2])
      [] x.t = "timestamp" -> FALSE
      [] OTHER -> TRUE

RoundTrips == call.exc = NoExc /\ call.back = call.v

NewInstance(T) ==
    [type |-> T, vals |-> [i \in DOMAIN Types[T].fields |-> Types[T].fields[i].default],
     resolved |-> FALSE, exc |-> NoExc]

StartRun(os) ==
    [objs |-> os, queries |-> <<>>, hooks |-> <<>>, visits |-> <<>>, sets |-> <<>>,
     coerced |-> <<>>, natives |-> <<>>, hook_states |-> <<>>]

\* extract_inner_type, get_config_if_union, get_origin: the hint without
\* Optional and NewType
InnerHint(hint) == H(IF hint.base = "TSecretValue" THEN "str" ELSE hint.base)
is_optional_type(hint) == hint.opt

ConfigFieldMissingException(T, unresolved_fields) ==
    Exc("ConfigFieldMissingException", T, <<>>, unresolved_fields)
InvalidNativeValue(T, embedded_namespaces) ==
    Exc("InvalidNativeValue", T, embedded_namespaces, <<>>)
HookException(method) == Exc("HookException", method, <<>>, <<>>)

\* _call_method_in_mro from class i of the chain on
RECURSIVE CallFrom(_, _, _, _, _)
CallFrom(m, id, method_name, beh, i) ==
    LET mro == Types[m.objs[id].type].mro
    IN  IF i > Len(mro) THEN [m |-> m, exc |-> NoExc]
        ELSE IF method_name \notin mro[i].hooks THEN CallFrom(m, id, method_name, beh, i + 1)
        ELSE LET called == [m EXCEPT !.hooks = Append(@, <<id, mro[i].name, method_name>>),
                                     !.hook_states = Append(@, [sets |-> Len(m.sets),
                                                                resolved |-> m.objs[id].resolved,
                                                                exc |-> m.objs[id].exc])]
             IN  CASE beh[method_name] = "raise" ->
                        [m |-> called, exc |-> HookException(method_name)]
                   [] beh[method_name] = "resolve" ->
                        CallFrom([called EXCEPT !.objs[id].resolved = TRUE],
                                 id, method_name, beh, i + 1)
                   [] OTHER -> CallFrom(called, id, method_name, beh, i + 1)

_call_method_in_mro(m, id, method_name, beh) == CallFrom(m, id, method_name, beh, 1)

RECURSIVE _resolve_configuration(_, _, _, _, _, _, _)
RECURSIVE FieldsFrom(_, _, _, _, _, _, _, _, _)

\* the lookup r, logged in the run
Logged(m, r) ==
    [m |-> [m EXCEPT !.queries = @ \o r.queries],
     value |-> r.value, traces |-> r.traces, exc |-> r.exc]

SingleValue(m, key, hint, inner_hint, config_namespace, explicit_namespaces, embedded_namespaces) ==
    Logged(m, _resolve_single_value(m.objs, key, hint, inner_hint, config_namespace,
                                    explicit_namespaces, embedded_namespaces))

NestedAcceptPartialAsGiven(accept_partial, hint) == accept_partial

\* accept_partial = accept_partial or is_optional
NestedAcceptPartial(accept_partial, hint) == accept_partial \/ is_optional_type(hint)

\* line 234 returned or raised: r is what _resolve_configuration did
NestedDone(r, embedded_config, default1, traces1) ==
    [m |-> r.m, traces |-> traces1, exc |-> r.exc,
     value |-> IF r.exc # NoExc THEN None
               ELSE PyOr(Instance(embedded_config), default1)]

\* lines 227-234: initial is the lookup of the initial value
WithInitial(initial, embedded_config, id, hint, default1, traces, explicit_namespaces, accept_partial, beh) ==
    IF initial.exc # NoExc
    THEN [m |-> initial.m, value |-> None, traces |-> traces \o initial.traces,
          exc |-> initial.exc]
    ELSE NestedDone(_resolve_configuration(initial.m, embedded_config, explicit_namespaces,
                                           id, PyOr(initial.value, default1),
                                           NestedAcceptPartial(accept_partial, hint), beh),
                    embedded_config, default1, traces \o initial.traces)

\* lines 221-226: only a configuration with a namespace, and without a value
\* yet, looks for an initial value
InitialValue(m1, T, id, value1, explicit_namespaces, ap) ==
    IF Types[T].namespace # "" /\ value1 = None
    THEN SingleValue(m1, ap[1], IF Types[T].credentials THEN TSecretValue ELSE AnyType,
                     AnyType, "", explicit_namespaces, ap[2])
    ELSE [m |-> m1, value |-> value1, traces |-> <<>>, exc |-> NoExc]

\* lines 203-234: the field is a configuration
EmbeddedField(m, key, hint, inner_hint, default_value, value, traces, explicit_namespaces, embedded_namespaces, accept_partial, beh) ==
    LET id == Append(embedded_namespaces, key)
        reuse == value.t = "config" \/ default_value.t = "config"
        embedded_config == IF value.t = "config" THEN value.v
                           ELSE IF default_value.t = "config" THEN default_value.v
                           ELSE id
        value1 == IF value.t = "config" THEN None ELSE value
        default1 == IF value.t # "config" /\ default_value.t = "config"
                    THEN None ELSE default_value
        m1 == IF reuse THEN m
              ELSE [m EXCEPT !.objs = (id :> NewInstance(inner_hint.base)) @@ @]
        T == m1.objs[embedded_config].type
    IN  IF m1.objs[embedded_config].resolved
        THEN [m |-> m1, value |-> PyOr(Instance(embedded_config), default1),
              traces |-> traces, exc |-> NoExc]
        ELSE WithInitial(InitialValue(m1, T, id, value1, explicit_namespaces,
                             _apply_embedded_namespaces_to_config_namespace(
                                 Types[T].namespace, id)),
                         embedded_config, id, hint, default1, traces,
                         explicit_namespaces, accept_partial, beh)

\* lines 237-242: d is what deserialize_value returned or raised
Deserialized(found, key, default_value, d) ==
    [m |-> [found.m EXCEPT !.coerced = Append(@, key)],
     value |-> PyOr(d.value, default_value), traces |-> found.traces, exc |-> d.exc]

\* lines 200-242: found is the explicit value or what the providers gave
Found(found, key, hint, inner_hint, default_value, explicit_value, explicit_namespaces, embedded_namespaces, accept_partial, beh) ==
    IF found.exc # NoExc THEN found
    ELSE IF IsContextHint(inner_hint)
    THEN [found EXCEPT !.value = PyOr(found.value, default_value)]
    ELSE IF IsConfigHint(inner_hint)
    THEN EmbeddedField(found.m, key, hint, inner_hint, default_value, found.value,
                       found.traces, explicit_namespaces, embedded_namespaces,
                       accept_partial, beh)
    ELSE IF found.value # None /\ ~Truthy(explicit_value)
    THEN Deserialized(found, key, default_value,
                      deserialize_value(key, found.value, inner_hint.base))
    ELSE [found EXCEPT !.value = PyOr(found.value, default_value)]

\* _resolve_config_field: [m, value, traces, exc]
_resolve_config_field(m, key, hint, default_value, explicit_value, config_namespace, explicit_namespaces, embedded_namespaces, accept_partial, beh) ==
    Found(IF Truthy(explicit_value)
          THEN [m |-> m, value |-> explicit_value, traces |-> <<>>, exc |-> NoExc]
          ELSE SingleValue(m, key, hint, InnerHint(hint), config_namespace,
                           explicit_namespaces, embedded_namespaces),
          key, hint, InnerHint(hint), default_value, explicit_value,
          explicit_namespaces, embedded_namespaces, accept_partial, beh)

\* lines 153-171: the loop over the fields from field i on, then the raise
FieldLoop(m, id, explicit_values, explicit_namespaces, embedded_namespaces, accept_partial, beh, i, unresolved_fields) ==
    LET T == m.objs[id].type
    IN  IF i > Len(Types[T].fields)
        THEN [m |-> m, exc |-> IF unresolved_fields # <<>>
                               THEN ConfigFieldMissingException(T, unresolved_fields)
                               ELSE NoExc]
        ELSE FieldsFrom(m, id, explicit_values, explicit_namespaces, embedded_namespaces,
                        accept_partial, beh, i, unresolved_fields)

\* lines 162-168: r is what _resolve_config_field returned or raised for
\* field i; then the rest of the loop
FieldDone(r, id, explicit_values, explicit_namespaces, embedded_namespaces, accept_partial, beh, i, unresolved_fields) ==
    LET field == Types[r.m.objs[id].type].fields[i]
    IN  IF r.exc # NoExc THEN [m |-> r.m, exc |-> r.exc]
        ELSE FieldLoop([r.m EXCEPT !.objs[id].vals[i] = r.value,
                                   !.sets = Append(@, <<id, field.name, r.value>>)],
                       id, explicit_values, explicit_namespaces, embedded_namespaces,
                       accept_partial, beh, i + 1,
                       IF ~is_optional_type(field.hint) /\ r.value = None
                       THEN Append(unresolved_fields,
                                   [name |-> field.name, traces |-> r.traces])
                       ELSE unresolved_fields)

\* lines 154-160: field i is resolved
FieldsFrom(m, id, explicit_values, explicit_namespaces, embedded_namespaces, accept_partial, beh, i, unresolved_fields) ==
    LET T == m.objs[id].type
        field == Types[T].fields[i]
    IN  FieldDone(_resolve_config_field(
                      [m EXCEPT !.visits = Append(@, <<id, field.name>>)],
                      field.name, field.hint, m.objs[id].vals[i],
                      IF Truthy(explicit_values)
                      THEN Get(explicit_values, field.name) ELSE None,
                      Types[T].namespace, explicit_namespaces, embedded_namespaces,
                      accept_partial, beh),
                  id, explicit_values, explicit_namespaces, embedded_namespaces,
                  accept_partial, beh, i, unresolved_fields)

_resolve_config_fields(m, id, explicit_values, explicit_namespaces, embedded_namespaces, accept_partial, beh) ==
    FieldLoop(m, id, explicit_values, explicit_namespaces, embedded_namespaces,
              accept_partial, beh, 1, <<>>)

\* the mark set before the hooks are called
FinishMarksFirst(f, id, beh) ==
    IF f.exc # NoExc THEN f
    ELSE _call_method_in_mro([f.m EXCEPT !.objs[id].resolved = TRUE], id, "on_resolved", beh)

\* lines 121-123: f is what the field by field resolution did
Finish(f, id, beh) ==
    IF f.exc # NoExc THEN f
    ELSE LET h == _call_method_in_mro(f.m, id, "on_resolved", beh)
         IN  IF h.exc # NoExc THEN h
             ELSE [m |-> [h.m EXCEPT !.objs[id].resolved = TRUE], exc |-> NoExc]

\* an inner try block that takes a ValueError of the native parser for
\* "not implemented"
TryResolveSwallowsValueError(m, id, explicit_namespaces, embedded_namespaces, explicit_value, accept_partial, beh) ==
    LET native == Truthy(explicit_value) /\ explicit_value.t # "mapping"
        parsed == IF native
                  THEN [m EXCEPT !.natives = Append(@, <<id, explicit_value, Len(m.visits)>>),
                                 !.objs[id].resolved = (beh.native = "resolved")]
                  ELSE m
    IN  Finish(IF ~parsed.objs[id].resolved
               THEN _resolve_config_fields(parsed, id,
                                           IF native THEN None ELSE explicit_value,
                                           explicit_namespaces, embedded_namespaces,
                                           accept_partial, beh)
               ELSE [m |-> parsed, exc |-> NoExc],
               id, beh)

\* lines 105-123: the inner try block
TryResolve(m, id, explicit_namespaces, embedded_namespaces, explicit_value, accept_partial, beh) ==
    LET native == Truthy(explicit_value) /\ explicit_value.t # "mapping"
        parsed == IF native
                  THEN [m EXCEPT !.natives = Append(@, <<id, explicit_value, Len(m.visits)>>),
                                 !.objs[id].resolved = (beh.native = "resolved")]
                  ELSE m
    IN  IF native /\ beh.native = "ValueError"
        THEN [m |-> parsed,
              exc |-> InvalidNativeValue(m.objs[id].type, embedded_namespaces)]
        ELSE Finish(IF ~parsed.objs[id].resolved
                    THEN _resolve_config_fields(parsed, id,
                                                IF native THEN None ELSE explicit_value,
                                                explicit_namespaces, embedded_namespaces,
                                                accept_partial, beh)
                    ELSE [m |-> parsed, exc |-> NoExc],
                    id, beh)

\* the handler that raises whatever accept_partial says
OnMissingAlwaysRaise(m, id, cm_ex, accept_partial, beh) ==
    [m |-> [m EXCEPT !.objs[id].exc = cm_ex], exc |-> cm_ex]

\* the handler that calls on_partial before it stores the exception
OnMissingHookFirst(m, id, cm_ex, accept_partial, beh) ==
    LET p == _call_method_in_mro(m, id, "on_partial", beh)
        stored == [p.m EXCEPT !.objs[id].exc = cm_ex]
    IN  IF p.exc # NoExc THEN [m |-> stored, exc |-> p.exc]
        ELSE IF stored.objs[id].resolved
        THEN _call_method_in_mro(stored, id, "on_resolved", beh)
        ELSE [m |-> stored, exc |-> IF accept_partial THEN NoExc ELSE cm_ex]

\* lines 124-133: except ConfigFieldMissingException as cm_ex
OnMissing(m, id, cm_ex, accept_partial, beh) ==
    LET stored == [m EXCEPT !.objs[id].exc = cm_ex]
        p == _call_method_in_mro(stored, id, "on_partial", beh)
    IN  IF p.exc # NoExc THEN p
        ELSE IF p.m.objs[id].resolved
        THEN _call_method_in_mro(p.m, id, "on_resolved", beh)
        ELSE [m |-> p.m, exc |-> IF accept_partial THEN NoExc ELSE cm_ex]

\* line 124: t is what the inner try block did
Handled(t, id, accept_partial, beh) ==
    IF t.exc.kind = "ConfigFieldMissingException"
    THEN OnMissing(t.m, id, t.exc, accept_partial, beh)
    ELSE t

\* lines 134-137: except Exception as ex
Stored(r, id) ==
    IF r.exc # NoExc
    THEN [m |-> [r.m EXCEPT !.objs[id].exc = r.exc], exc |-> r.exc]
    ELSE r

\* lines 102-139
Resolve(m, id, explicit_namespaces, embedded_namespaces, explicit_value, accept_partial, beh) ==
    Stored(Handled(TryResolve([m EXCEPT !.objs[id].exc = NoExc], id,
                              explicit_namespaces, embedded_namespaces,
                              explicit_value, accept_partial, beh),
                   id, accept_partial, beh),
           id)

\* resolution that starts over on an instance already resolved
ResolveEvenIfResolved(m, id, explicit_namespaces, embedded_namespaces, explicit_value, accept_partial, beh) ==
    Resolve(m, id, explicit_namespaces, embedded_namespaces, explicit_value,
            accept_partial, beh)

_resolve_configuration(m, id, explicit_namespaces, embedded_namespaces, explicit_value, accept_partial, beh) ==
    IF m.objs[id].resolved THEN [m |-> m, exc |-> NoExc]
    ELSE Resolve(m, id, explicit_namespaces, embedded_namespaces, explicit_value,
                 accept_partial, beh)

\* line 28, initial being what line 26 returned or raised
FromInitial(initial, id, namespaces, accept_partial, beh) ==
    IF initial.exc # NoExc THEN [m |-> initial.m, exc |-> initial.exc]
    ELSE _resolve_configuration(initial.m, id, namespaces, <<>>, initial.value,
                                accept_partial, beh)

\* lines 25-26
TopLevelInitial(m, T, namespaces, explicit_value, accept_partial, beh) ==
    IF Types[T].namespace # "" /\ explicit_value = None
    THEN _resolve_config_field(m, Types[T].namespace, AnyType, None,
                               explicit_value, "", namespaces, <<>>,
                               accept_partial, beh)
    ELSE [m |-> m, value |-> explicit_value, traces |-> <<>>, exc |-> NoExc]

\* a resolver that looks a value up before it checks what it was given
ResolveThenCheck(m, config, namespaces, explicit_value, accept_partial, beh) ==
    IF config.t # "config"
    THEN [m |-> SingleValue(m, "name", H("str"), H("str"), "", namespaces, <<>>).m,
          exc |-> Exc("ConfigurationWrongTypeException", TypeOf(config), <<>>, <<>>)]
    ELSE FromInitial(TopLevelInitial(m, m.objs[config.v].type, namespaces,
                                     explicit_value, accept_partial, beh),
                     config.v, namespaces, accept_partial, beh)

\* resolve_configuration(config, namespaces=, explicit_value=, accept_partial=)
resolve_configuration(m, config, namespaces, explicit_value, accept_partial, beh) ==
    IF config.t # "config"
    THEN [m |-> m, exc |-> Exc("ConfigurationWrongTypeException", TypeOf(config), <<>>, <<>>)]
    ELSE FromInitial(TopLevelInitial(m, m.objs[config.v].type, namespaces,
                                     explicit_value, accept_partial, beh),
                     config.v, namespaces, accept_partial, beh)

(***************************************************************************)
(* Resolving a configuration: the providers hold up to MaxEntries values   *)
(* at the places the fields of the root configuration are looked up.       *)
(***************************************************************************)
RootId == <<>>
RootTypes == {"Root", "RootOpt", "Pipeline", "Creds"}

Leaves(path, vals) == {[provider |-> i, path |-> path, val |-> x] : i \in 1..2, x \in vals}

EntriesOf(T) ==
    CASE T \in {"Root", "RootOpt"} ->
            Leaves(<<"name">>, {Text("n"), Text("")})
            \cup Leaves(<<"limit">>, {Text("7"), Text("0"), Text("x")})
            \cup Leaves(<<"db", "host">>, {Text("h")})
            \cup Leaves(<<"db">>, {Text("dsn")})
      [] T = "Pipeline" ->
            Leaves(<<"credentials">>, {Text("dsn")})
            \cup Leaves(<<"credentials", "password">>, {Text("pw")})
      [] T = "Creds" ->
            Leaves(<<"creds">>, {Text("dsn")})
            \cup Leaves(<<"creds", "password">>, {Text("pw")})

TomlRegistries ==
    {<<SecretsTomlProvider, ConfigTomlProvider>>,
     <<ConfigTomlProvider, SecretsTomlProvider>>}

Init ==
    /\ \E T \in RootTypes :
          /\ objs = (RootId :> NewInstance(T))
          /\ \E reg \in TomlRegistries, entries \in SubsetsUpTo(EntriesOf(T), MaxEntries) :
                /\ providers = Loaded(reg, entries)
                /\ \A i \in DOMAIN providers : PrefixFree(providers[i].toml)
    /\ namespaces_context = [pipeline_name |-> "", namespaces |-> <<>>]
    /\ call = NoCall

\* what the code outside the resolver does when called: the native parser
\* and the hooks of the configuration classes
DefaultBehaviour ==
    [native |-> "NotImplementedError", on_resolved |-> "pass", on_partial |-> "pass"]
Behaviours ==
    {DefaultBehaviour}
    \cup {[DefaultBehaviour EXCEPT !.native = x] : x \in {"ValueError", "parsed", "resolved"}}
    \cup {[DefaultBehaviour EXCEPT !.on_partial = x] : x \in {"resolve", "raise"}}
    \cup {[DefaultBehaviour EXCEPT !.on_resolved = "raise"]}
    \cup {[DefaultBehaviour EXCEPT !.native = "resolved", !.on_resolved = "raise"],
          [DefaultBehaviour EXCEPT !.on_partial = "resolve", !.on_resolved = "raise"]}

ExplicitValues ==
    {None,
     Mapping({<<"name", Text("e")>>, <<"password", Text("pw")>>}),
     Mapping({<<"name", Text("")>>, <<"limit", PyInt(0)>>}),
     Text("dsn")}

Called(r, accept_partial, explicit_value, beh, op) ==
    [op |-> op, accept_partial |-> accept_partial, explicit_value |-> explicit_value,
     beh |-> beh, exc |-> r.exc, queries |-> r.m.queries, hooks |-> r.m.hooks,
     visits |-> r.m.visits, sets |-> r.m.sets, coerced |-> r.m.coerced,
     natives |-> r.m.natives, hook_states |-> r.m.hook_states, before |-> objs]

\* the call returned or raised: the instances are as it left them
Returned(r, accept_partial, explicit_value, beh, op) ==
    /\ objs' = r.m.objs
    /\ call' = Called(r, accept_partial, explicit_value, beh, op)

\* the calls made: every explicit value with the default behaviour, the
\* hooks' behaviours without an explicit value, the native parser's with
\* and without one
CallShapes ==
    {<<x, b>> \in ExplicitValues \X Behaviours :
        \/ b = DefaultBehaviour
        \/ x = None
        \/ x = Text("dsn") /\ b.native # DefaultBehaviour.native}

\* the first call of resolve_configuration on the root configuration
ResolveConfiguration ==
    /\ call = NoCall
    /\ \E accept_partial \in BOOLEAN, shape \in CallShapes :
          Returned(resolve_configuration(StartRun(objs), Instance(RootId), <<>>,
                                         shape[1], accept_partial, shape[2]),
                   accept_partial, shape[1], shape[2], "resolve_configuration")
    /\ UNCHANGED <<providers, namespaces_context>>

\* resolve_configuration called again on the root configuration
ResolveAgain ==
    /\ call # NoCall
    /\ call.op = "resolve_configuration"
    /\ objs[RootId].resolved
    /\ \E accept_partial \in BOOLEAN,
          explicit_value \in {None, Mapping({<<"name", Text("e")>>, <<"password", Text("pw")>>})} :
          Returned(resolve_configuration(StartRun(objs), Instance(RootId), <<>>,
                                         explicit_value, accept_partial, DefaultBehaviour),
                   accept_partial, explicit_value, DefaultBehaviour, "again")
    /\ UNCHANGED <<providers, namespaces_context>>

\* what is no BaseConfiguration instance
NonConfigurations == {None, Text("x"), PyInt(1), Mapping({<<"name", Text("e")>>})}

\* resolve_configuration called with something that is no configuration
ResolveWrongType ==
    /\ call = NoCall
    /\ \E config \in NonConfigurations, accept_partial \in BOOLEAN,
          explicit_value \in ExplicitValues :
          Returned(resolve_configuration(StartRun(objs), config, <<>>,
                                         explicit_value, accept_partial, DefaultBehaviour),
                   accept_partial, explicit_value, DefaultBehaviour, "wrong_type")
    /\ UNCHANGED <<providers, namespaces_context>>

Next == ResolveConfiguration \/ ResolveAgain \/ ResolveWrongType

Spec == Init /\ [][Next]_vars

RootType == objs[RootId].type
RootFields == Types[RootType].fields
FirstCall == call.op = "resolve_configuration"
Visited(id, key) == \E j \in DOMAIN call.visits : call.visits[j] = <<id, key>>
QueriedKey(key) == \E j \in DOMAIN call.queries : call.queries[j].key = key
Names(fields) == {fields[j].name : j \in DOMAIN fields}

\* the keys whose value must be a secret: the TSecretValue field, and the
\* keys under which a credentials configuration is looked up as a whole
SecretKeys == {"password", "creds", "credentials"}

\* C2: a value a provider without secret support returned for a
\* secret-required field, or for a credentials configuration as a whole, is
\* never accepted: the call raises ValueNotSecretException.
C2_NoSecretFromPlainProvider ==
    (FirstCall /\ call.explicit_value = None) =>
        \A j \in DOMAIN call.queries :
            (/\ call.queries[j].key \in SecretKeys
             /\ ~ProviderNamed(call.queries[j].provider).supports_secrets
             /\ Held(call.queries[j]) # None)
            => call.exc.kind = "ValueNotSecretException"

\* a scalar field of the root configuration
ScalarField(i) == ~IsConfigHint(InnerHint(RootFields[i].hint))

\* C4: a field given an explicit value, falsy ones included, is resolved
\* without a provider query and without deserialize_value, and is set to
\* exactly that value.
C4_ExplicitValuePrecedence ==
    (FirstCall /\ call.explicit_value.t = "mapping") =>
        \A i \in DOMAIN RootFields :
            LET key == RootFields[i].name
                given == Get(call.explicit_value, key)
            IN  (ScalarField(i) /\ given # None /\ Visited(RootId, key)) =>
                    /\ ~QueriedKey(key)
                    /\ \A j \in DOMAIN call.coerced : call.coerced[j] # key
                    /\ objs[RootId].vals[i] = given

\* C5: a ConfigFieldMissingException is raised after every field of the
\* configuration was visited, for that configuration, and lists exactly its
\* non-optional fields left without a value.
C5_MissingFieldAggregation ==
    (FirstCall /\ call.exc.kind = "ConfigFieldMissingException") =>
        /\ \A i \in DOMAIN RootFields : Visited(RootId, RootFields[i].name)
        /\ call.exc.who = RootType
        /\ Names(call.exc.fields) =
              {RootFields[i].name : i \in {j \in DOMAIN RootFields :
                    ~is_optional_type(RootFields[j].hint) /\ objs[RootId].vals[j] = None}}

StoredMissing(id) ==
    /\ ~objs[id].resolved
    /\ objs[id].exc.kind = "ConfigFieldMissingException"

\* C6: with accept_partial = False the call returns only with the
\* configuration Resolved, and a configuration left unresolved with missing
\* fields has its ConfigFieldMissingException raised; with accept_partial =
\* True the call returns it unresolved with that exception stored.
C6_AcceptPartial ==
    FirstCall =>
        /\ (~call.accept_partial /\ call.exc = NoExc) => objs[RootId].resolved
        /\ (~call.accept_partial /\ StoredMissing(RootId)) => call.exc = objs[RootId].exc
        /\ (call.accept_partial /\ StoredMissing(RootId)) => call.exc = NoExc
        /\ (call.exc = NoExc /\ ~objs[RootId].resolved) =>
              call.accept_partial /\ StoredMissing(RootId)

\* two fields are missing, on_partial ran, and the call returned
C6_Witness ==
    /\ FirstCall
    /\ call.accept_partial
    /\ call.exc = NoExc
    /\ StoredMissing(RootId)
    /\ Len(objs[RootId].exc.fields) = 2
    /\ \E j \in DOMAIN call.hooks : call.hooks[j] = <<RootId, RootType, "on_partial">>

\* C7: a call on a Resolved configuration returns it with every instance as
\* it was (fields, resolved flag, stored exception), sets no field and calls
\* no hook.
C7_Idempotence ==
    (call.op = "again" /\ call.before[RootId].resolved) =>
        /\ objs = call.before
        /\ call.exc = NoExc
        /\ call.hooks = <<>>
        /\ call.sets = <<>>
        /\ call.visits = <<>>

\* the explicit value of the second call differs from what the field holds
C7_Witness ==
    /\ call.op = "again"
    /\ call.before[RootId].resolved
    /\ RootType = "Root"
    /\ call.explicit_value.t = "mapping"
    /\ Get(call.explicit_value, "name") = Text("e")
    /\ objs[RootId].vals[1] = Text("n")

NestedId == <<"db">>

\* C8: under an Optional parent field, a nested configuration whose required
\* field no provider supplied (and whose on_partial hook did nothing) is left
\* unresolved with its ConfigFieldMissingException stored and does not raise
\* it into the parent, whatever accept_partial the caller passed: the parent
\* field holds the nested configuration and the parent goes on to its next
\* field.
C8_OptionalNestedPartial ==
    (/\ FirstCall
     /\ RootType \in {"Root", "RootOpt"}
     /\ is_optional_type(RootFields[2].hint)
     /\ Visited(NestedId, "host")
     /\ objs[NestedId].vals[1] = None
     /\ call.beh.on_partial = "pass") =>
        /\ StoredMissing(NestedId)
        /\ Names(objs[NestedId].exc.fields) = {"host"}
        /\ call.exc # objs[NestedId].exc
        /\ objs[RootId].vals[2] = Instance(NestedId)
        /\ Visited(RootId, "limit")

C8_Witness ==
    /\ FirstCall
    /\ ~call.accept_partial
    /\ RootType = "RootOpt"
    /\ StoredMissing(NestedId)
    /\ objs[RootId].vals[2] = Instance(NestedId)
    /\ objs[RootId].resolved
    /\ call.exc = NoExc

(***************************************************************************)
(* inject_namespace: the namespace context of the container and the        *)
(* scopes entered, innermost last.  call.stack holds, per scope entered    *)
(* and not yet left, the context it injected and the one it found.         *)
(***************************************************************************)
MaxScopes == 2

Contexts ==
    [pipeline_name : {"", "p", "q"}, namespaces : {<<>>, <<"a">>, <<"b">>}]

\* lines 80-85: the context handed to container.injectable_context
inject_namespace(namespace_context, merge_existing) ==
    LET existing_context == namespaces_context
    IN  IF merge_existing
        THEN [pipeline_name |-> IF namespace_context.pipeline_name # ""
                                THEN namespace_context.pipeline_name
                                ELSE existing_context.pipeline_name,
              namespaces |-> IF namespace_context.namespaces # <<>>
                             THEN namespace_context.namespaces
                             ELSE existing_context.namespaces]
        ELSE namespace_context

\* a scope that leaves the injected context in place when left by an exception
ExitKeepsOnException(scope, how) ==
    IF how = "exception" THEN scope.injected ELSE scope.previous

\* Container.injectable_context on exit: the context active in the container
\* once the scope is left
injectable_context_exit(scope, how) == scope.previous

ExitPaths == {"return", "early return", "exception"}

CtxInit ==
    /\ namespaces_context \in Contexts
    /\ providers = <<SecretsTomlProvider>>
    /\ objs = <<>>
    /\ call = [op |-> "scopes", stack |-> <<>>, base |-> namespaces_context,
               event |-> "none", left |-> <<>>, queries |-> <<>>]

\* with inject_namespace(namespace_context, merge_existing): the block is entered
EnterScope ==
    /\ call.op = "scopes"
    /\ Len(call.stack) < MaxScopes
    /\ \E namespace_context \in Contexts, merge_existing \in BOOLEAN :
          /\ namespaces_context' = inject_namespace(namespace_context, merge_existing)
          /\ call' = [call EXCEPT
                         !.stack = Append(@, [injected |-> namespaces_context',
                                              previous |-> namespaces_context]),
                         !.event = "enter", !.left = <<>>, !.queries = <<>>]
    /\ UNCHANGED <<providers, objs>>

\* the innermost block is left, by one of the exit paths
ExitScope ==
    /\ call.op = "scopes"
    /\ call.stack # <<>>
    /\ \E how \in ExitPaths :
          LET scope == call.stack[Len(call.stack)]
          IN  /\ namespaces_context' = injectable_context_exit(scope, how)
              /\ call' = [call EXCEPT !.stack = SubSeq(@, 1, Len(@) - 1),
                                      !.event = how, !.left = <<scope>>,
                                      !.queries = <<>>]
    /\ UNCHANGED <<providers, objs>>

\* a value is looked up where the process stands
ScopedLookup ==
    /\ call.op = "scopes"
    /\ call.event # "lookup"
    /\ call' = [call EXCEPT
                   !.event = "lookup", !.left = <<>>,
                   !.queries = _resolve_single_value(objs, "k", H("str"), H("str"),
                                                     "", <<>>, <<>>).queries]
    /\ UNCHANGED <<providers, namespaces_context, objs>>

CtxNext == EnterScope \/ ExitScope \/ ScopedLookup

SpecCtx == CtxInit /\ [][CtxNext]_vars

\* the context that is to be active where the process stands
ActiveContext ==
    IF call.stack = <<>> THEN call.base ELSE call.stack[Len(call.stack)].injected

\* the first namespace path a lookup tries under a context
FirstPath(context) ==
    (IF context.pipeline_name # "" THEN <<context.pipeline_name>> ELSE <<>>)
    \o context.namespaces

C12_WrongTypeFirst ==
    call.op = "wrong_type" =>
        /\ call.exc.kind = "ConfigurationWrongTypeException"
        /\ call.queries = <<>>
        /\ call.visits = <<>>
        /\ call.sets = <<>>
        /\ call.hooks = <<>>
        /\ call.natives = <<>>
        /\ call.coerced = <<>>
        /\ objs = call.before

\* the providers hold a value and an explicit value was passed
C12_Witness ==
    /\ call.op = "wrong_type"
    /\ call.exc.who = "dict"
    /\ call.explicit_value # None
    /\ \E i \in DOMAIN providers : providers[i].toml # {}

(***************************************************************************)
(* TomlProvider on its own: the file it is built from and the walk of      *)
(* get_value down the parsed document.                                     *)
(***************************************************************************)
TomlEntries ==
    {[path |-> p, val |-> Text("v")] :
        p \in {<<"k">>, <<"a">>, <<"a", "k">>, <<"a", "b">>, <<"a", "b", "k">>}}

\* the file at toml_path: no file, a TOML document, or a file tomlkit rejects
TomlFiles ==
    {[kind |-> "absent", doc |-> {}], [kind |-> "malformed", doc |-> {}]}
    \cup {[kind |-> "document", doc |-> d] :
             d \in {x \in SubsetsUpTo(TomlEntries, MaxEntries) : PrefixFree(x)}}

\* TomlProvider._read_toml: [toml, raised]
_read_toml(file) ==
    CASE file.kind = "absent" -> [toml |-> {}, raised |-> FALSE]
      [] file.kind = "document" -> [toml |-> file.doc, raised |-> FALSE]
      [] OTHER -> [toml |-> {}, raised |-> TRUE]

\* self._toml as the dict the walk starts from
TomlRoot(toml) == IF toml = {} THEN Mapping({}) ELSE TomlNode(toml, <<>>)

\* node[k] without the isinstance test: a str indexed by a str
IndexUnchecked(node, k) ==
    IF node.t # "mapping" THEN [value |-> None, raised |-> "TypeError"]
    ELSE IF Get(node, k) = None THEN [value |-> None, raised |-> "KeyError"]
    ELSE [value |-> Get(node, k), raised |-> ""]

\* lines 36-38: one step of the walk
Index(node, k) ==
    IF node.t # "mapping" THEN [value |-> None, raised |-> "KeyError"]
    ELSE IF Get(node, k) = None THEN [value |-> None, raised |-> "KeyError"]
    ELSE [value |-> Get(node, k), raised |-> ""]

RECURSIVE Walk(_, _)
Stepped(step, rest) == IF step.raised # "" THEN step ELSE Walk(step.value, rest)

\* "for k in full_path" from node on
Walk(node, full_path) ==
    IF full_path = <<>> THEN [value |-> node, raised |-> ""]
    ELSE Stepped(Index(node, Head(full_path)), Tail(full_path))

\* lines 39-41: the walk returned or raised
Walked(w, full_key) ==
    IF w.raised = "" THEN [value |-> w.value, ns_key |-> full_key, exc |-> NoExc]
    ELSE IF w.raised = "KeyError" THEN [value |-> None, ns_key |-> full_key, exc |-> NoExc]
    ELSE [value |-> None, ns_key |-> full_key, exc |-> Exc(w.raised, "", <<>>, <<>>)]

\* TomlProvider.get_value, statement by statement
TomlGetValue(provider, key, hint, namespaces) ==
    Walked(Walk(TomlRoot(provider.toml), Append(namespaces, key)),
           get_key_name(key, namespaces))

TomlInit ==
    /\ providers = <<>>
    /\ namespaces_context = [pipeline_name |-> "", namespaces |-> <<>>]
    /\ objs = <<>>
    /\ \E file \in TomlFiles : call = [op |-> "file", file |-> file]

\* TomlProvider.__init__
Construct ==
    /\ call.op = "file"
    /\ \E base \in {ConfigTomlProvider, SecretsTomlProvider} :
          LET read == _read_toml(call.file)
          IN  /\ providers' = IF read.raised THEN <<>>
                              ELSE <<[base EXCEPT !.toml = read.toml]>>
              /\ call' = [op |-> "__init__", file |-> call.file,
                          exc |-> IF read.raised
                                  THEN Exc("TomlProviderReadException", base.name,
                                           <<>>, <<>>)
                                  ELSE NoExc]
    /\ UNCHANGED <<namespaces_context, objs>>

\* provider.get_value(key, hint, *namespaces)
GetValue ==
    /\ call.op = "__init__"
    /\ providers # <<>>
    /\ \E key \in {"k", "z"}, namespaces \in {<<>>, <<"a">>, <<"a", "b">>, <<"z">>} :
          LET got == TomlGetValue(providers[1], key, H("str"), namespaces)
          IN  call' = [op |-> "get_value", file |-> call.file, key |-> key,
                       namespaces |-> namespaces, value |-> got.value,
                       ns_key |-> got.ns_key, exc |-> got.exc]
    /\ UNCHANGED <<providers, namespaces_context, objs>>

TomlNext == Construct \/ GetValue

SpecToml == TomlInit /\ [][TomlNext]_vars

\* the document holds something at the path or below it
Holds(doc, full_path) == \E e \in doc : IsPrefix(full_path, e.path)

\* C13: a provider built on a missing file is built without an exception and
\* holds an empty root; its get_value returns absent with the full key name
\* for every key and path.  On any document get_value raises nothing and
\* returns absent where a segment is missing or a node on the way is no
\* table; what it returns is what the lookup reads.
C13_AbsentNeverRaises ==
    /\ (call.op \in {"__init__", "get_value"} /\ call.file.kind = "absent") =>
          /\ call.exc = NoExc
          /\ providers[1].toml = {}
    /\ call.op = "get_value" =>
          /\ call.exc = NoExc
          /\ call.ns_key = get_key_name(call.key, call.namespaces)
          /\ call.file.kind = "absent" => call.value = None
          /\ ~Holds(call.file.doc, Append(call.namespaces, call.key)) =>
                call.value = None
          /\ call.value =
                get_value(providers[1], call.key, H("str"), call.namespaces).value

\* the walk meets a string where it needs a table
C13_Witness ==
    /\ call.op = "get_value"
    /\ call.namespaces = <<"a">>
    /\ call.key = "k"
    /\ \E e \in call.file.doc : e.path = <<"a">>
    /\ call.value = None
    /\ call.exc = NoExc

\* the config namespace and the embedded namespaces the call looks under
Effective ==
    _apply_embedded_namespaces_to_config_namespace(call.config_namespace,
                                                   call.embedded_namespaces)

\* the namespaces of a query between the pipeline name and the config namespace
Middle(q) ==
    LET p == namespaces_context.pipeline_name
        c == Effective[1]
        s1 == IF p # "" /\ q.namespaces # <<>> /\ Head(q.namespaces) = p
              THEN Tail(q.namespaces) ELSE q.namespaces
    IN  IF c # "" /\ s1 # <<>> /\ s1[Len(s1)] = c
        THEN SubSeq(s1, 1, Len(s1) - 1) ELSE s1

InPipelinePass(q) ==
    /\ namespaces_context.pipeline_name # ""
    /\ q.namespaces # <<>>
    /\ Head(q.namespaces) = namespaces_context.pipeline_name

\* queries j and j + 1 are successive attempts on one provider in one pass
Successive(j) ==
    /\ j + 1 \in DOMAIN call.queries
    /\ call.queries[j].provider = call.queries[j + 1].provider
    /\ InPipelinePass(call.queries[j]) = InPipelinePass(call.queries[j + 1])

WithoutLast(s) == SubSeq(s, 1, Len(s) - 1)

\* C14 as stated: after an attempt that found nothing, the next attempt on
\* the same provider uses the path without its first segment.
C14_PopsFirstSegment ==
    call.op = "_resolve_single_value" =>
        \A j \in DOMAIN call.queries :
            Successive(j) =>
                Middle(call.queries[j + 1]) = Tail(Middle(call.queries[j]))

\* C14, amended: after an attempt that found nothing, the next attempt on the
\* same provider uses the path without its last segment, down to the empty
\* path; only then is the next provider tried.
C14_PopsLastSegment ==
    call.op = "_resolve_single_value" =>
        \A j \in DOMAIN call.queries :
            /\ Successive(j) =>
                  /\ Held(call.queries[j]) = None
                  /\ Middle(call.queries[j]) # <<>>
                  /\ Middle(call.queries[j + 1]) = WithoutLast(Middle(call.queries[j]))
            /\ (/\ j + 1 \in DOMAIN call.queries
                /\ call.queries[j].provider # call.queries[j + 1].provider) =>
                  Middle(call.queries[j]) = <<>>

\* one provider was asked under [a, b], then [a], then []
C14_Witness ==
    /\ call.op = "_resolve_single_value"
    /\ Len(call.queries) >= 3
    /\ Successive(1)
    /\ Successive(2)
    /\ Middle(call.queries[1]) = <<"a", "b">>
    /\ Middle(call.queries[2]) = <<"a">>
    /\ Middle(call.queries[3]) = <<>>
    /\ call.value # None

\* the namespaces the call starts its fallback from
CallStart ==
    (IF call.explicit_namespaces # <<>> THEN call.explicit_namespaces
     ELSE namespaces_context.namespaces) \o Effective[2]

\* the paths of the pipeline pass on a namespaced provider
PipelinePaths ==
    {<<namespaces_context.pipeline_name>> \o SubSeq(CallStart, 1, n)
        \o (IF Effective[1] # "" THEN <<Effective[1]>> ELSE <<>>) :
        n \in 0..Len(CallStart)}

\* some namespaced provider holds the key under a path of the pipeline pass
HeldInPipelinePass ==
    \E i \in DOMAIN providers, path \in PipelinePaths :
        /\ providers[i].supports_namespaces
        /\ TomlNode(providers[i].toml, Append(path, "k")) # None

\* C15: with a pipeline name in the context, every attempt under the
\* pipeline name comes before every attempt without it, an attempt without
\* it is made only when no attempt under it found a value, and a value held
\* under a pipeline path by any namespaced provider is returned in preference
\* to any value held without the prefix.
C15_PipelinePassFirst ==
    (/\ call.op = "_resolve_single_value"
     /\ namespaces_context.pipeline_name # ""
     /\ call.exc = NoExc) =>
        /\ \A i, j \in DOMAIN call.queries :
              (i < j /\ InPipelinePass(call.queries[j])) => InPipelinePass(call.queries[i])
        /\ (\E j \in DOMAIN call.queries : ~InPipelinePass(call.queries[j])) =>
              /\ ~HeldInPipelinePass
              /\ \A i \in DOMAIN call.queries :
                    InPipelinePass(call.queries[i]) => Held(call.queries[i]) = None
        /\ HeldInPipelinePass =>
              /\ InPipelinePass(call.queries[Len(call.queries)])
              /\ call.value = Held(call.queries[Len(call.queries)])
              /\ call.value # None

\* the first provider holds the key only without the prefix, the second
\* under the pipeline name: the second one's value is returned
C15_Witness ==
    /\ call.op = "_resolve_single_value"
    /\ namespaces_context.pipeline_name = "p"
    /\ call.config_namespace = ""
    /\ providers[1].supports_namespaces
    /\ providers[1].toml = {[path |-> <<"a", "k">>, val |-> Text("v1")]}
    /\ providers[2].toml = {[path |-> <<"p", "k">>, val |-> Text("v2")]}
    /\ call.value = Text("v2")

\* the positions of the queries made to provider i
QueriesTo(i) == {j \in DOMAIN call.queries : call.queries[j].provider = providers[i].name}

\* the pipeline pass ran over every namespaced provider down to the shortest
\* path
PipelinePassDone ==
    Cardinality({j \in DOMAIN call.queries : InPipelinePass(call.queries[j])})
        = Cardinality({i \in DOMAIN providers : providers[i].supports_namespaces})
            * (Len(CallStart) + 1)

\* C16: a provider without namespaces is asked at most once in a lookup and
\* with the empty path, whatever the context, explicit, embedded and config
\* namespaces; under a pipeline name it is asked only after the whole
\* pipeline pass found nothing.
C16_PlainProviderOnce ==
    call.op = "_resolve_single_value" =>
        \A i \in DOMAIN providers :
            ~providers[i].supports_namespaces =>
                /\ Cardinality(QueriesTo(i)) <= 1
                /\ \A j \in QueriesTo(i) :
                      /\ call.queries[j].namespaces = <<>>
                      /\ \A n \in DOMAIN call.queries :
                            InPipelinePass(call.queries[n]) => n < j
                      /\ namespaces_context.pipeline_name # "" =>
                            PipelinePassDone /\ ~HeldInPipelinePass

\* under a pipeline name, with explicit, embedded and config namespaces, the
\* first provider has no namespaces: it is asked after the pipeline pass
C16_Witness ==
    /\ call.op = "_resolve_single_value"
    /\ namespaces_context.pipeline_name = "p"
    /\ call.explicit_namespaces # <<>>
    /\ call.embedded_namespaces # <<>>
    /\ call.config_namespace # ""
    /\ ~providers[1].supports_namespaces
    /\ QueriesTo(1) # {}
    /\ \E j \in DOMAIN call.queries : InPipelinePass(call.queries[j])
    /\ call.value # None

\* C17: every attempt that did not raise left one LookupTrace, in the order
\* of the attempts, attempts on a provider that cannot hold the secret
\* included: there are as many traces as queries that returned, and trace j
\* is of the provider of query j.
C17_TraceCompleteness ==
    call.op = "_resolve_single_value" =>
        /\ Len(call.traces) =
              Len(call.queries) - (IF call.exc # NoExc THEN 1 ELSE 0)
        /\ \A j \in DOMAIN call.traces :
              call.traces[j].provider = call.queries[j].provider

\* the declared fields of a configuration type
FieldsOf(T) == {Types[T].fields[i] : i \in DOMAIN Types[T].fields}

\* the native values given to parse_native_representation of instance id
NativesOf(id) == {n \in DOMAIN call.natives : call.natives[n][1] = id}

\* the fields of instance id visited in the call, as positions of the log
VisitsOf(id) == {j \in DOMAIN call.visits : call.visits[j][1] = id}

\* the non-mapping value the initial lookup of the root found, None without one
RootInitial ==
    IF \E j \in DOMAIN call.queries :
          /\ call.queries[j].key = Types[RootType].namespace
          /\ Held(call.queries[j]).t = "text"
    THEN Held(call.queries[CHOOSE j \in DOMAIN call.queries :
                              /\ call.queries[j].key = Types[RootType].namespace
                              /\ Held(call.queries[j]).t = "text"])
    ELSE None

\* C18: a truthy value that is no mapping, passed or found by the initial
\* lookup, goes to parse_native_representation once, before any field of the
\* configuration is visited.  A ValueError becomes InvalidNativeValue,
\* whatever accept_partial; after NotImplementedError, or a parse that left
\* the configuration unresolved, every field is resolved with no explicit
\* value and so looked up in the providers.  A mapping is never given to the
\* native parser.
C18_NativeStep ==
    FirstCall =>
        /\ \A n \in DOMAIN call.natives :
              LET id == call.natives[n][1]
              IN  /\ NativesOf(id) = {n}
                  /\ Truthy(call.natives[n][2])
                  /\ call.natives[n][2].t # "mapping"
                  /\ \A j \in VisitsOf(id) : j > call.natives[n][3]
                  /\ call.beh.native = "ValueError" =>
                        /\ call.exc = InvalidNativeValue(objs[id].type, id)
                        /\ n = Len(call.natives)
                        /\ VisitsOf(id) = {}
                        /\ ~objs[id].resolved
                  /\ call.beh.native \in {"NotImplementedError", "parsed"} =>
                        /\ VisitsOf(id) # {}
                        /\ \A j \in VisitsOf(id) :
                              \/ IsConfigHint(InnerHint(
                                    (CHOOSE f \in FieldsOf(objs[id].type) :
                                        f.name = call.visits[j][2]).hint))
                              \/ QueriedKey(call.visits[j][2])
        /\ (Truthy(call.explicit_value) /\ call.explicit_value.t # "mapping") =>
              /\ call.natives # <<>>
              /\ call.natives[1] = <<RootId, call.explicit_value, 0>>
        /\ (call.explicit_value = None /\ Types[RootType].namespace # ""
            /\ RootInitial # None) =>
              /\ call.natives # <<>>
              /\ call.natives[1] = <<RootId, RootInitial, 0>>
        /\ call.explicit_value.t = "mapping" => NativesOf(RootId) = {}

\* a nested configuration got its native value from a provider; the parser
\* did not implement it and its field was looked up
C18_Witness ==
    /\ FirstCall
    /\ call.beh.native = "NotImplementedError"
    /\ NativesOf(NestedId) # {}
    /\ VisitsOf(NestedId) # {}
    /\ call.exc = NoExc
    /\ objs[RootId].resolved

\* C19: an exception that is no ConfigFieldMissingException and leaves the
\* resolution of the root configuration is stored in its __exception__,
\* reaches the caller whatever accept_partial, and the configuration is not
\* marked resolved.
C19_OtherExceptionsStored ==
    (FirstCall /\ call.exc.kind \notin {NoExc.kind, "ConfigFieldMissingException"}) =>
        /\ objs[RootId].exc = call.exc
        /\ ~objs[RootId].resolved

\* the calls of a hook on a configuration, as indexes of the log
HookCalls(id, method_name) ==
    {j \in DOMAIN call.hooks : call.hooks[j][1] = id /\ call.hooks[j][3] = method_name}

\* the classes whose hook was called on a configuration, in the order called
Invoked(id, method_name) ==
    LET mine == SelectSeq(call.hooks, LAMBDA h : h[1] = id /\ h[3] = method_name)
    IN  [j \in DOMAIN mine |-> mine[j][2]]

\* the classes of the derivation chain that define the hook themselves,
\* most derived first
Defining(T, method_name) ==
    LET own == SelectSeq(Types[T].mro, LAMBDA c : method_name \in c.hooks)
    IN  [j \in DOMAIN own |-> own[j].name]

\* when hook call j was made every field had been set, none that is
\* required to None
FieldsResolvedBefore(id, j) ==
    \A f \in FieldsOf(objs[id].type) :
        \E k \in DOMAIN call.sets :
            /\ k <= call.hook_states[j].sets
            /\ call.sets[k][1] = id
            /\ call.sets[k][2] = f.name
            /\ f.hint.opt \/ call.sets[k][3] # None

\* the configuration was marked resolved by its native parser or by its
\* on_partial before hook call j
MarkedBefore(id, j) ==
    \/ NativesOf(id) # {} /\ call.beh.native = "resolved"
    \/ /\ call.beh.on_partial = "resolve"
       /\ \E k \in HookCalls(id, "on_partial") : k < j

\* C20 as stated: on_resolved is invoked only after every field was resolved
\* without ConfigFieldMissingException, once per defining class and most
\* derived first, and the configuration is not marked resolved before all
\* of them returned.
C20_OnResolvedAfterFields ==
    FirstCall =>
        \A id \in DOMAIN objs :
            /\ \A j \in HookCalls(id, "on_resolved") :
                  /\ FieldsResolvedBefore(id, j)
                  /\ ~call.hook_states[j].resolved
            /\ (HookCalls(id, "on_resolved") # {} /\ call.beh.on_resolved # "raise") =>
                  Invoked(id, "on_resolved") = Defining(objs[id].type, "on_resolved")

\* C20: on_resolved is invoked after every field was resolved without
\* ConfigFieldMissingException, or on a configuration its native parser or
\* its on_partial has marked resolved, and in no other case.  The classes of
\* the derivation chain that define it are called once each, most derived
\* first, up to the first that raises.  A configuration not marked before
\* its hooks were called is resolved only if all of them returned.
C20_OnResolvedOrder ==
    FirstCall =>
        \A id \in DOMAIN objs :
            /\ \A j \in HookCalls(id, "on_resolved") :
                  IF call.hook_states[j].resolved
                  THEN MarkedBefore(id, j)
                  ELSE FieldsResolvedBefore(id, j)
            /\ IsPrefix(Invoked(id, "on_resolved"), Defining(objs[id].type, "on_resolved"))
            /\ (HookCalls(id, "on_resolved") # {} /\ call.beh.on_resolved # "raise") =>
                  Invoked(id, "on_resolved") = Defining(objs[id].type, "on_resolved")
            /\ (objs[id].resolved /\ (id \notin DOMAIN call.before \/ ~call.before[id].resolved)) =>
                  \/ Invoked(id, "on_resolved") = Defining(objs[id].type, "on_resolved")
                     /\ call.beh.on_resolved # "raise"
                  \/ \A j \in HookCalls(id, "on_resolved") : MarkedBefore(id, j)

\* both classes of a credentials chain were called, the derived one first,
\* after the field was set, and the configuration was marked after them
C20_Witness ==
    /\ FirstCall
    /\ \E id \in DOMAIN objs :
          /\ objs[id].type = "Creds"
          /\ objs[id].resolved
          /\ Invoked(id, "on_resolved") = <<"Creds", "CredentialsConfiguration">>
          /\ \A j \in HookCalls(id, "on_resolved") :
                ~call.hook_states[j].resolved /\ FieldsResolvedBefore(id, j)

\* C21: when the fields of a configuration raised
\* ConfigFieldMissingException, the exception is on the object when
\* on_partial is called; on_resolved is called after it exactly when
\* on_partial left the object resolved; and, the hooks having returned, the
\* exception reaches the caller exactly when the object is unresolved and
\* accept_partial is false.
C21_PartialPath ==
    FirstCall =>
        /\ \A id \in DOMAIN objs :
              /\ \A j \in HookCalls(id, "on_partial") :
                    /\ call.hook_states[j].exc.kind = "ConfigFieldMissingException"
                    /\ ~call.hook_states[j].resolved
              /\ HookCalls(id, "on_partial") # {} =>
                    /\ \A r \in HookCalls(id, "on_resolved") :
                          /\ call.hook_states[r].resolved
                          /\ \A j \in HookCalls(id, "on_partial") : j < r
                    /\ HookCalls(id, "on_resolved") # {} <=> call.beh.on_partial = "resolve"
        /\ (HookCalls(RootId, "on_partial") # {} /\ call.exc.kind # "HookException") =>
              /\ call.exc.kind = "ConfigFieldMissingException" <=>
                    (~objs[RootId].resolved /\ ~call.accept_partial)
              /\ call.exc # NoExc => call.exc = objs[RootId].exc
              /\ objs[RootId].exc.kind = "ConfigFieldMissingException"

\* a field was missing, on_partial marked the configuration resolved,
\* on_resolved ran and the call returned although accept_partial was false
C21_Witness ==
    /\ FirstCall
    /\ ~call.accept_partial
    /\ HookCalls(RootId, "on_partial") # {}
    /\ HookCalls(RootId, "on_resolved") # {}
    /\ objs[RootId].resolved
    /\ call.exc = NoExc

\* what the lookup of a root field found: the value held where the last
\* query for the key was made, None when it held nothing or none was made
FoundFor(key) ==
    LET asked == {j \in DOMAIN call.queries : call.queries[j].key = key}
    IN  IF asked = {} THEN None
        ELSE Held(call.queries[CHOOSE j \in asked : \A k \in asked : k <= j])

\* the root field was looked up in the providers, which held a value that
\* was coerced to a falsy value of the field's type
FalsyPresent(i) ==
    /\ ScalarField(i)
    /\ Visited(RootId, RootFields[i].name)
    /\ FoundFor(RootFields[i].name) # None
    /\ LET d == deserialize_value(RootFields[i].name, FoundFor(RootFields[i].name),
                                  InnerHint(RootFields[i].hint).base)
       IN  d.exc = NoExc /\ ~Truthy(d.value)

\* C22: a field for which a provider returned a value that coerces to a
\* falsy value of its type (0, the empty string) is set to that value, not
\* to the field's default.
C22_FalsyPresentKept ==
    (FirstCall /\ call.explicit_value = None) =>
        \A i \in DOMAIN RootFields :
            FalsyPresent(i) =>
                objs[RootId].vals[i] =
                    deserialize_value(RootFields[i].name, FoundFor(RootFields[i].name),
                                      InnerHint(RootFields[i].hint).base).value

\* C27: a required root field for which a provider returned a value that
\* was accepted and coerced is not listed in the ConfigFieldMissingException
\* of the root configuration, a falsy coerced value included.
C27_PresentNeverMissing ==
    (/\ FirstCall
     /\ call.explicit_value = None
     /\ call.exc.kind = "ConfigFieldMissingException"
     /\ call.exc.who = RootType) =>
        \A i \in DOMAIN RootFields :
            (/\ ScalarField(i)
             /\ ~is_optional_type(RootFields[i].hint)
             /\ Visited(RootId, RootFields[i].name)
             /\ FoundFor(RootFields[i].name) # None
             /\ deserialize_value(RootFields[i].name, FoundFor(RootFields[i].name),
                                  InnerHint(RootFields[i].hint).base).exc = NoExc) =>
                RootFields[i].name \notin Names(call.exc.fields)

(***************************************************************************)
(* A configuration with an injectable context among its fields.  The       *)
(* container holds a context of the field's type or none; the providers of *)
(* the registry hold values under the field's key.                         *)
(***************************************************************************)
InjectEntries ==
    Leaves(<<"ctx">>, {Text("x")})
    \cup Leaves(<<"p", "ctx">>, {Text("x")})
    \cup Leaves(<<"a", "ctx">>, {Text("x")})
    \cup Leaves(<<"name">>, {Text("n")})

InjectInit ==
    /\ objs \in {RootId :> NewInstance("Holder"),
                 (RootId :> NewInstance("Holder")) @@ (ContextId :> NewInstance("Ctx"))}
    /\ \E reg \in TomlRegistries, entries \in SubsetsUpTo(InjectEntries, MaxEntries) :
          providers = Loaded(reg, entries)
    /\ namespaces_context \in [pipeline_name : {"", "p"}, namespaces : {<<>>, <<"a">>}]
    /\ call = NoCall

SpecInject == InjectInit /\ [][Next]_vars

ContextField == CHOOSE i \in DOMAIN RootFields : IsContextHint(RootFields[i].hint)

\* some provider of the registry holds a value a lookup of the key would reach
RegistryHolds(key) ==
    \E i \in DOMAIN providers : \E e \in providers[i].toml :
        e.path \in {<<key>>, <<namespaces_context.pipeline_name, key>>}

\* C23: a field whose type is an injectable context is looked up by one
\* get_value call, made on the context provider without namespaces; no
\* provider of the registry is asked for it; the field is set to what the
\* context provider returned, which is neither coerced nor resolved.
C23_ContextFromContextProvider ==
    (FirstCall /\ Visited(RootId, "ctx")) =>
        /\ \E j \in DOMAIN call.queries :
              /\ call.queries[j].key = "ctx"
              /\ call.queries[j].provider = "Injectable Context"
              /\ call.queries[j].namespaces = <<>>
              /\ \A k \in DOMAIN call.queries : call.queries[k].key = "ctx" => k = j
        /\ \A j \in DOMAIN call.coerced : call.coerced[j] # "ctx"
        /\ objs[RootId].vals[ContextField] = ContextProviderValue(call.before)
        /\ HookCalls(ContextId, "on_resolved") = {}
        /\ ContextId \in DOMAIN objs => objs[ContextId] = call.before[ContextId]

\* the container held the context and the registry a value under the
\* field's key: the field holds the context
C23_Witness ==
    /\ FirstCall
    /\ RegistryHolds("ctx")
    /\ ContextId \in DOMAIN objs
    /\ objs[RootId].vals[ContextField] = Instance(ContextId)
    /\ objs[RootId].resolved

\* the paths of the pass without the pipeline name on a namespaced provider
PlainPaths ==
    {SubSeq(CallStart, 1, n)
        \o (IF Effective[1] # "" THEN <<Effective[1]>> ELSE <<>>) :
        n \in 0..Len(CallStart)}

Segments(s) == {s[i] : i \in DOMAIN s}

\* the query is the first one made to its provider
FirstTo(j) ==
    \A k \in DOMAIN call.queries :
        call.queries[k].provider = call.queries[j].provider => j <= k

\* C24: every path a namespaced provider is queried with is the pipeline
\* name (pipeline pass only), then a prefix of the explicit namespaces, or of
\* the context's when none were passed, followed by the filtered embedded
\* ones, then the config namespace when there is one.  With explicit
\* namespaces no segment comes from the context; with a pipeline name the
\* first query to a provider starts with it and is the full path; with a
\* config namespace every path ends with it.
C24_PathComposition ==
    call.op = "_resolve_single_value" =>
        \A j \in DOMAIN call.queries :
            ProviderNamed(call.queries[j].provider).supports_namespaces =>
                LET path == call.queries[j].namespaces
                    pipeline_name == namespaces_context.pipeline_name
                IN  /\ \/ path \in PlainPaths
                       \/ (pipeline_name # "" /\ path \in PipelinePaths)
                    /\ call.explicit_namespaces # <<>> =>
                          Segments(path) \subseteq
                              Segments(call.explicit_namespaces)
                              \cup Segments(Effective[2])
                              \cup {pipeline_name, Effective[1]}
                    /\ (pipeline_name # "" /\ FirstTo(j)) =>
                          path = <<pipeline_name>> \o CallStart
                                 \o (IF Effective[1] # "" THEN <<Effective[1]>> ELSE <<>>)
                    /\ Effective[1] # "" => path # <<>> /\ path[Len(path)] = Effective[1]

\* explicit namespaces, a pipeline name, embedded namespaces and a config
\* namespace at once: the fallback went down to [p, f] and on to [f]
C24_Witness ==
    /\ call.op = "_resolve_single_value"
    /\ call.explicit_namespaces # <<>>
    /\ call.embedded_namespaces # <<>>
    /\ namespaces_context.pipeline_name # ""
    /\ Effective[1] # ""
    /\ \E j \in DOMAIN call.queries :
          call.queries[j].namespaces = <<namespaces_context.pipeline_name, Effective[1]>>
    /\ \E j \in DOMAIN call.queries : call.queries[j].namespaces = <<Effective[1]>>

(***************************************************************************)
(* Configurations nested under keys that start with "_": Outer holds Mid   *)
(* under "_i", Mid holds one Sub under "db" and one under "_j".            *)
(***************************************************************************)
HiddenEntries ==
    Leaves(<<"db", "host">>, {Text("h")})
    \cup Leaves(<<"source", "host">>, {Text("h")})
    \cup Leaves(<<"a", "db", "host">>, {Text("h")})
    \cup Leaves(<<"_i", "db", "host">>, {Text("h")})
    \cup Leaves(<<"_i", "_j", "host">>, {Text("h")})
    \cup Leaves(<<"db">>, {Text("dsn")})
    \cup Leaves(<<"source">>, {Text("dsn")})

HiddenInit ==
    /\ objs = (RootId :> NewInstance("Outer"))
    /\ \E reg \in TomlRegistries, entries \in SubsetsUpTo(HiddenEntries, MaxEntries) :
          /\ providers = Loaded(reg, entries)
          /\ \A i \in DOMAIN providers : PrefixFree(providers[i].toml)
    /\ namespaces_context \in [pipeline_name : {""}, namespaces : {<<>>, <<"a">>}]
    /\ call = NoCall

SpecHidden == HiddenInit /\ [][Next]_vars

\* the traces the exception stored on a configuration carries
StoredTraces(id) ==
    UNION {Segments(objs[id].exc.fields[k].traces) : k \in DOMAIN objs[id].exc.fields}

\* C25: no embedded key that starts with "_" is a namespace segment of a
\* provider query or of a trace, at any depth of nesting.
C25_InvisibleNamespaces ==
    FirstCall =>
        /\ \A j \in DOMAIN call.queries :
              Segments(call.queries[j].namespaces) \cap InvisibleNames = {}
        /\ \A id \in DOMAIN objs : \A t \in StoredTraces(id) :
              /\ Segments(t.namespaces) \cap InvisibleNames = {}
              /\ Segments(t.key) \cap InvisibleNames = {}

\* the fields of both innermost configurations were looked up, two levels
\* under "_i", one of them under "_j", and one was left missing with traces
C25_Witness ==
    /\ FirstCall
    /\ <<"_i", "_j">> \in DOMAIN objs
    /\ <<"_i", "db">> \in DOMAIN objs
    /\ objs[<<"_i", "db">>].resolved
    /\ \E j \in DOMAIN call.queries :
          call.queries[j].key = "host" /\ call.queries[j].namespaces = <<"source">>
    /\ StoredTraces(<<"_i", "_j">>) # {}

(***************************************************************************)
(* InsertValuesLoadJob.  The database is the row count of the target table *)
(* in the dataset and in its staging dataset.  A load brings up to         *)
(* MaxFiles job files for the table, each started by start_file_load; the  *)
(* table's write disposition is the same for all files of a load.          *)
(***************************************************************************)
MaxRows == 2
MaxFiles == 2
MaxLoads == 3

WriteDispositions == {"append", "replace", "merge"}

\* _insert: the one list of statements it yields
_insert(write_disposition) ==
    IF write_disposition = "replace" THEN <<"DELETE", "INSERT">> ELSE <<"INSERT">>

\* one statement run against the table holding count rows
Statement(count, stmt, rows) ==
    IF stmt = "DELETE" THEN 0 ELSE count + rows

\* execute_fragments: the statements run in order; the one numbered fails
\* raises
RECURSIVE ExecuteFrom(_, _, _, _, _, _)
ExecuteFrom(count, fragments, rows, fails, i, log) ==
    IF i > Len(fragments) THEN [count |-> count, log |-> log, raised |-> FALSE]
    ELSE IF i = fails THEN [count |-> count, log |-> log, raised |-> TRUE]
    ELSE ExecuteFrom(Statement(count, fragments[i], rows), fragments, rows, fails,
                     i + 1, Append(log, fragments[i]))

execute_fragments(count, fragments, rows, fails) ==
    ExecuteFrom(count, fragments, rows, fails, 1, <<>>)

\* with_staging_dataset(staging): the dataset the statements run in
with_staging_dataset(staging) == IF staging THEN "staging" ELSE "main"

\* begin_transaction around what was executed: commit when the block
\* returned, rollback when it raised
Transaction(db, dataset, x) ==
    [db |-> IF x.raised THEN db ELSE [db EXCEPT ![dataset] = x.count],
     dataset |-> dataset,
     log |-> <<"BEGIN">> \o x.log \o <<IF x.raised THEN "ROLLBACK" ELSE "COMMIT">>,
     raised |-> x.raised]

\* InsertValuesLoadJob.__init__ on a file of rows rows
InsertValuesLoadJob(db, write_disposition, rows, fails) ==
    Transaction(db, with_staging_dataset(write_disposition = "merge"),
                execute_fragments(db[with_staging_dataset(write_disposition = "merge")],
                                  _insert(write_disposition), rows, fails))

\* InsertValuesLoadJob.state
JobState == "completed"

NoLoad == [id |-> 0, write_disposition |-> "append", files |-> 0, rows |-> 0]

InsertInit ==
    /\ call = [op |-> "load", db |-> [main |-> 0, staging |-> 0], load |-> NoLoad,
               job |-> [state |-> "none", dataset |-> "main", log |-> <<>>,
                        raised |-> FALSE, rows |-> 0]]
    /\ objs = <<>>
    /\ providers = <<>>
    /\ namespaces_context = [pipeline_name |-> "", namespaces |-> <<>>]

\* a load package for the table arrives
NewLoad ==
    /\ call.load.id < MaxLoads
    /\ \E write_disposition \in WriteDispositions :
          call' = [call EXCEPT !.load = [id |-> call.load.id + 1,
                                         write_disposition |-> write_disposition,
                                         files |-> 0, rows |-> 0],
                               !.job.state = "none", !.job.log = <<>>,
                               !.job.raised = FALSE, !.job.rows = 0]
    /\ UNCHANGED <<objs, providers, namespaces_context>>

\* r is what the constructor did
Started(r, rows) ==
    call' = [call EXCEPT
                !.db = r.db,
                !.job = [state |-> IF r.raised THEN "none" ELSE JobState,
                         dataset |-> r.dataset, log |-> r.log, raised |-> r.raised,
                         rows |-> rows],
                !.load.files = IF r.raised THEN @ ELSE @ + 1,
                !.load.rows = IF r.raised THEN @ ELSE @ + rows]

\* InsertValuesJobClient.start_file_load on one file of the load
StartFileLoad ==
    /\ call.load.id > 0
    /\ call.load.files < MaxFiles
    /\ \E rows \in 1..MaxRows, fails \in 0..2 :
          Started(InsertValuesLoadJob(call.db, call.load.write_disposition, rows, fails),
                  rows)
    /\ UNCHANGED <<objs, providers, namespaces_context>>

InsertNext == NewLoad \/ StartFileLoad

SpecInsert == InsertInit /\ [][InsertNext]_vars

\* C26: a replace job runs DELETE, then INSERT, in one transaction, and a
\* replace load leaves the table with the rows of that load; an append or
\* merge job runs no DELETE; the staging dataset is used exactly for merge;
\* a job whose construction returned reports "completed".
C26_ReplaceLoad ==
    (call.op = "load" /\ call.load.id > 0) =>
        /\ (call.job.log # <<>> /\ ~call.job.raised) =>
              /\ call.job.state = "completed"
              /\ call.job.log =
                    IF call.load.write_disposition = "replace"
                    THEN <<"BEGIN", "DELETE", "INSERT", "COMMIT">>
                    ELSE <<"BEGIN", "INSERT", "COMMIT">>
              /\ call.job.dataset = "staging" <=> call.load.write_disposition = "merge"
        /\ (call.load.write_disposition = "replace" /\ call.load.files > 0) =>
              call.db.main = call.load.rows

\* C28: every trace keeps the namespace path its provider was queried with
\* in that attempt, whatever the fallback did to the path afterwards, also
\* with no pipeline name and no config namespace.
C28_TracesKeepQueriedPath ==
    (/\ call.op = "_resolve_single_value"
     /\ ~_is_secret_hint(call.hint)
     /\ call.exc = NoExc) =>
        /\ Len(call.traces) = Len(call.queries)
        /\ \A i \in DOMAIN call.traces :
              /\ call.traces[i].provider = call.queries[i].provider
              /\ call.traces[i].namespaces = call.queries[i].namespaces

\* C29: a configuration that is resolved after the call has no stored
\* exception, also when on_partial resolved it after a
\* ConfigFieldMissingException.
C29_ResolvedHasNoException ==
    (call # NoCall /\ call.op \in {"resolve_configuration", "again"}) =>
        \A id \in DOMAIN objs : objs[id].resolved => objs[id].exc = NoExc

\* the fields of a configuration that must hold a nested configuration
RequiredNested(T) ==
    {i \in DOMAIN Types[T].fields :
        /\ ~is_optional_type(Types[T].fields[i].hint)
        /\ IsConfigHint(InnerHint(Types[T].fields[i].hint))
        /\ ~IsContextHint(InnerHint(Types[T].fields[i].hint))}

\* C30: a configuration is resolved only if each of its required nested
\* configuration fields holds a resolved configuration, with accept_partial
\* = True too.
C30_ResolvedOnlyWithResolvedNested ==
    FirstCall =>
        \A id \in DOMAIN objs :
            objs[id].resolved =>
                \A i \in RequiredNested(objs[id].type) :
                    /\ objs[id].vals[i].t = "config"
                    /\ objs[objs[id].vals[i].v].resolved

====
